---------------------------- MODULE Spec2Model ----------------------------
(***************************************************************************)
(* canvas-richtext: the document chain (Chain), its links (TextLink,       *)
(* CursorLink, NewlineLink, VirtualNewlineLink), the normalize/layout      *)
(* pipeline (recalc) and the editor's command layer (CanvasEditor).        *)
(*                                                                         *)
(* Text is a sequence of one-character strings.  Pixel quantities are      *)
(* integers; where the code halves a sum (a midpoint) the comparison is    *)
(* made on the doubled values.  Sequence indices are 1-based: the code's   *)
(* items[k] is items[k + 1] here.                                          *)
(***************************************************************************)
EXTENDS Integers, Sequences, FiniteSets, TLC

VARIABLES
    chain,          \* the editor's Chain: items, widthPixels, currentFontProperties,
                    \* selectionStart, selectionEnd, targetCursorX; hung when a
                    \* call into it has not returned
    history,        \* CanvasEditor.history
    historyIndex,   \* CanvasEditor.historyIndex
    run,            \* history variable: the current run of consecutive vertical moves
    last,           \* history variable: the call made last and what it was given
    session,        \* history variable: the edits, undos and redos made so far
    scope,          \* the bounds of the behaviour and whether run and last are kept
    paragraphAlignments,  \* CanvasEditor.paragraphAlignments: the paragraphs centred
    cursorVisible,        \* CanvasEditor.cursorVisible
    lastBlinkTime,        \* CanvasEditor.lastBlinkTime
    blinkCycleStartTime,  \* CanvasEditor.blinkCycleStartTime
    now,            \* the clock Date.now() reads
    clipboard,      \* navigator.clipboard: its text, and the writeText and readText
                    \* promises not yet settled
    maxHistorySize  \* CanvasEditor.maxHistorySize

blink == <<cursorVisible, lastBlinkTime, blinkCycleStartTime>>

vars == <<chain, history, historyIndex, run, last, session, scope, paragraphAlignments, blink, now, clipboard, maxHistorySize>>

---------------------------------------------------------------------------
(* Bounds of the model *)

\* the longest flattened text (characters plus hard breaks) an edit may produce
MaxLen == 3
\* the most snapshots the modelled runs push after the initial one
MaxEdits == 3
\* the same two bounds where chain and editor operations are all combined
MaxLenAll == 2
MaxEditsAll == 1

---------------------------------------------------------------------------
(* Values *)

undefined == -1
null == -1

LINE_SPACING_NUM == 3
LINE_SPACING_DEN == 2

Min(a, b) == IF a < b THEN a ELSE b
Max(a, b) == IF a > b THEN a ELSE b
Abs(a) == IF a < 0 THEN 0 - a ELSE a

\* Array.prototype.splice(k, 0, e): e becomes the element at 1-based place i,
\* a place past the end appends
InsertAt(s, i, e) ==
    LET k == Min(Max(i, 1), Len(s) + 1)
    IN SubSeq(s, 1, k - 1) \o <<e>> \o SubSeq(s, k, Len(s))

\* Array.prototype.splice(k, 1)
RemoveAt(s, i) ==
    IF i < 1 \/ i > Len(s) THEN s
    ELSE SubSeq(s, 1, i - 1) \o SubSeq(s, i + 1, Len(s))

\* String.prototype.substring(a, b) with 0-based a, b
substring(t, a, b) ==
    LET lo == Min(Max(Min(a, b), 0), Len(t))
        hi == Min(Max(Max(a, b), 0), Len(t))
    IN SubSeq(t, lo + 1, hi)

FontProperties(size, family, weight, style) ==
    [size |-> size, family |-> family, weight |-> weight, style |-> style,
     underline |-> FALSE, strikethrough |-> FALSE, superscript |-> FALSE,
     subscript |-> FALSE, color |-> "#000000"]

\* The repository holds FontProperties twice.  docs/canvas-editor.umd.js has the
\* color in the constructor, in doPropertiesMatch and in clone; in
\* src/FontProperties.js the three know eight fields and the color is a
\* property setTextColor adds to the object.  scope.build says which of the
\* two a behaviour runs with.  A descriptor without a color is drawn as
\* '#000000' (fontProps.color || '#000000') and stands here with that color.
FromSource == scope.build = "src"

doPropertiesMatch(f, g) ==
    /\ f.size = g.size
    /\ f.family = g.family
    /\ f.weight = g.weight
    /\ f.style = g.style
    /\ f.underline = g.underline
    /\ f.strikethrough = g.strikethrough
    /\ f.superscript = g.superscript
    /\ f.subscript = g.subscript
    /\ FromSource \/ f.color = g.color

\* FontProperties.clone()
clone(f) == IF FromSource THEN [f EXCEPT !.color = "#000000"] ELSE f

defaultFontProperties == FontProperties(16, "Arial", "normal", "normal")

\* computed = {}
NoComputed ==
    [posX |-> undefined, posY |-> undefined, lineHeight |-> undefined,
     ascent |-> undefined, descent |-> undefined, height |-> undefined]

TextLink(text, fontProperties) ==
    [kind |-> "TextLink", text |-> text, font |-> fontProperties,
     computed |-> NoComputed]

CursorLink ==
    [kind |-> "CursorLink", text |-> <<>>, font |-> defaultFontProperties,
     computed |-> NoComputed]

NewlineLink ==
    [kind |-> "NewlineLink", text |-> <<>>, font |-> defaultFontProperties,
     computed |-> NoComputed]

VirtualNewlineLink ==
    [kind |-> "VirtualNewlineLink", text |-> <<>>, font |-> defaultFontProperties,
     computed |-> NoComputed]

IsText(it) == it.kind = "TextLink"
IsCursor(it) == it.kind = "CursorLink"
IsNewline(it) == it.kind = "NewlineLink"
IsVirtual(it) == it.kind = "VirtualNewlineLink"

\* /\s/ on one character
IsWhitespace(c) == c = " "

---------------------------------------------------------------------------
(* The text measurer: the canvas context of the editor's tests *)

charWidth(font) == font.size \div 2

measureWidth(text, font) == Len(text) * charWidth(font)
measureAscent(font) == (font.size * 3) \div 4
measureDescent(font) == font.size \div 4

\* TextLink.measureText(ctx, textOverride).width: an empty override is falsy,
\* so the link's own text is measured
measureText(it, textOverride) ==
    measureWidth(IF Len(textOverride) > 0 THEN textOverride ELSE it.text, it.font)

---------------------------------------------------------------------------
(* Chain: the normalize/layout pipeline *)

\* 1-based place of the first CursorLink, 0 when there is none (the code throws)
cursorIdx(items) ==
    IF \E i \in 1..Len(items) : IsCursor(items[i])
    THEN CHOOSE i \in 1..Len(items) :
            /\ IsCursor(items[i])
            /\ \A j \in 1..(i - 1) : ~IsCursor(items[j])
    ELSE 0

clearComputed(items) ==
    [i \in 1..Len(items) |-> [items[i] EXCEPT !.computed = NoComputed]]

\* removeVirtualNewlines with the splice left out: soft breaks of the last
\* layout stay (RecalcIdempotent tells the two apart)
keepVirtualNewlines(items) == items

removeVirtualNewlines(items) == SelectSeq(items, LAMBDA it : ~IsVirtual(it))

RECURSIVE joinFrom(_, _)
joinFrom(items, i) ==
    IF i > Len(items) THEN items
    ELSE IF /\ IsText(items[i])
            /\ i + 1 <= Len(items)
            /\ IsText(items[i + 1])
            /\ doPropertiesMatch(items[i].font, items[i + 1].font)
         THEN joinFrom(RemoveAt([items EXCEPT ![i].text = @ \o items[i + 1].text],
                                i + 1), i)
         ELSE joinFrom(items, i + 1)

\* joinAdjacentTextLinks with the merge left out (AdjacentSameFontOnlyChunks
\* tells the two apart)
joinNothing(items) == items

joinAdjacentTextLinks(items) == joinFrom(items, 1)

\* removeEmptyTextLinks with the filter left out: every item is kept
keepEmptyTextLinks(items) == items

removeEmptyTextLinks(items) ==
    SelectSeq(items, LAMBDA it : ~(IsText(it) /\ Len(it.text) = 0))

\* ensureCursorExists with the search left out: a cursor is pushed every time
\* (ExactlyOneCursor tells the two apart)
pushCursorAlways(items) == Append(items, CursorLink)

ensureCursorExists(items) ==
    IF \E i \in 1..Len(items) : IsCursor(items[i]) THEN items
    ELSE Append(items, CursorLink)

\* the inner scan of chunkTextLinks: text is what is left, j the 0-based scan
\* index (already incremented by the for statement), inside the scanner state
RECURSIVE chunkScan(_, _, _, _)
chunkScan(text, j, inside, split) ==
    IF j > Len(text) THEN split
    ELSE IF inside = "none"
         THEN chunkScan(text, j + 1,
                        IF IsWhitespace(text[j + 1]) THEN "whitespace"
                        ELSE "non-whitespace", split)
    ELSE IF inside = "whitespace"
         THEN IF j = Len(text) \/ ~IsWhitespace(text[j + 1])
              THEN chunkScan(substring(text, j, Len(text)), 1, "non-whitespace",
                             Append(split, substring(text, 0, j)))
              ELSE chunkScan(text, j + 1, inside, split)
    ELSE IF j = Len(text) \/ IsWhitespace(text[j + 1])
         THEN chunkScan(substring(text, j, Len(text)), 1, "whitespace",
                        Append(split, substring(text, 0, j)))
         ELSE chunkScan(text, j + 1, inside, split)

\* this.items.splice(i, 1, split[0], ..., split[n - 1]) as chunkTextLinks does
\* it: items[i] keeps its place with the first piece as its text
chunkSplice(items, i, split) ==
    SubSeq(items, 1, i - 1)
      \o <<[items[i] EXCEPT !.text = split[1]]>>
      \o [k \in 1..(Len(split) - 1) |-> TextLink(split[k + 1], clone(items[i].font))]
      \o SubSeq(items, i + 1, Len(items))

RECURSIVE chunkFrom(_, _)

\* the TextLink at i mixes whitespace and non-whitespace: split is its pieces
chunkAt(items, i, split) ==
    IF Len(split) > 1 THEN chunkFrom(chunkSplice(items, i, split), i + 1)
    ELSE chunkFrom(items, i + 1)

chunkFrom(items, i) ==
    IF i > Len(items) THEN items
    ELSE IF /\ IsText(items[i])
            /\ \E k \in 1..Len(items[i].text) : IsWhitespace(items[i].text[k])
            /\ \E k \in 1..Len(items[i].text) : ~IsWhitespace(items[i].text[k])
         THEN chunkAt(items, i, chunkScan(items[i].text, 0, "none", <<>>))
         ELSE chunkFrom(items, i + 1)

\* chunkTextLinks with the splitting left out
chunkNothing(items) == items

chunkTextLinks(items) == chunkFrom(items, 1)

\* recalcXPositions: whether no TextLink precedes items[i] on its line
RECURSIVE isFirstTextLinkOnLine(_, _)
isFirstTextLinkOnLine(items, j) ==
    IF j < 1 THEN TRUE
    ELSE IF IsText(items[j]) THEN FALSE
    ELSE IF IsNewline(items[j]) \/ IsVirtual(items[j]) THEN TRUE
    ELSE isFirstTextLinkOnLine(items, j - 1)

\* findSplitIdx without the measurement: the split always falls before the last
\* character (EveryTextLinkFits tells the two apart)
splitBeforeLastCharacter(it, remaining, splitIdx, widthPixels) == splitIdx

\* the for loop over splitIdx: the largest splitIdx in 0..from whose prefix of
\* remaining fits, -1 when none does (the loop runs out)
RECURSIVE findSplitIdx(_, _, _, _)
findSplitIdx(it, remaining, splitIdx, widthPixels) ==
    IF splitIdx < 0 THEN -1
    ELSE IF measureText(it, substring(remaining, 0, splitIdx)) <= widthPixels
         THEN splitIdx
         ELSE findSplitIdx(it, remaining, splitIdx - 1, widthPixels)

WithPosX(it, posX) == [it EXCEPT !.computed.posX = posX]

\* pushSubRun with the sub-run itself not pushed, only the soft break
\* (LayoutKeepsContent tells the two apart)
pushOnlyVirtualNewline(it, newItems, text, posX) ==
    Append(newItems, VirtualNewlineLink)

\* the sub-run pushed at the break out of the for loop, then the
\* VirtualNewlineLink pushed at the end of the iteration
pushSubRun(it, newItems, text, posX) ==
    newItems \o <<WithPosX(TextLink(text, clone(it.font)), posX), VirtualNewlineLink>>

RECURSIVE splitLoop(_, _, _, _, _)

\* one iteration of the while loop whose remaining text is wider than the chain,
\* splitIdx being where the for loop ended.
\*   splitIdx < 0: nothing was pushed and remaining is as it was, so the loop
\*                 repeats the same iteration for ever (hung);
\*   splitIdx = 0: an empty sub-run was pushed; if (splitIdx === 0) then finds
\*                 its text empty and drops one character of remaining;
\*   otherwise:    the prefix was pushed and remaining continues after it.
splitStep(it, remaining, newItems, posX, widthPixels, splitIdx) ==
    IF splitIdx < 0
    THEN [newItems |-> newItems, posX |-> posX, hung |-> TRUE]
    ELSE splitLoop(it,
                   substring(remaining, Max(splitIdx, 1), Len(remaining)),
                   pushSubRun(it, newItems, substring(remaining, 0, splitIdx), posX),
                   posX, widthPixels)

\* the while (remaining.length > 0) loop for a TextLink wider than the chain
splitLoop(it, remaining, newItems, posX, widthPixels) ==
    IF Len(remaining) = 0
    THEN [newItems |-> newItems, posX |-> posX, hung |-> FALSE]
    ELSE IF measureText(it, remaining) > widthPixels
    THEN splitStep(it, remaining, newItems, posX, widthPixels,
                   findSplitIdx(it, remaining, Len(remaining) - 1, widthPixels))
    ELSE [newItems |-> Append(newItems, WithPosX(TextLink(remaining, it.font), posX)),
          posX |-> posX + measureText(it, remaining),
          hung |-> FALSE]

RECURSIVE xFrom(_, _, _, _)

\* this.items.splice(i, 1, ...newItems); i += newItems.length - 1, r being what
\* the while loop left
xSpliced(items, i, r, widthPixels) ==
    IF r.hung THEN [items |-> items, hung |-> TRUE]
    ELSE xFrom(SubSeq(items, 1, i - 1) \o r.newItems \o SubSeq(items, i + 1, Len(items)),
               i + Len(r.newItems), r.posX, widthPixels)

\* the TextLink at i is wider than the chain and starts its line at posX
xWide(items, i, posX, widthPixels) ==
    xSpliced(items, i, splitLoop(items[i], items[i].text, <<>>, posX, widthPixels),
             widthPixels)

\* the for loop of recalcXPositions from place i on
xFrom(items, i, posX, widthPixels) ==
    IF i > Len(items) THEN [items |-> items, hung |-> FALSE]
    ELSE IF IsText(items[i])
    THEN IF measureText(items[i], <<>>) > widthPixels
         THEN IF isFirstTextLinkOnLine(items, i - 1)
              THEN xWide(items, i, posX, widthPixels)
              ELSE xWide(InsertAt(items, i, VirtualNewlineLink), i + 1, 0, widthPixels)
         ELSE IF posX + measureText(items[i], <<>>) > widthPixels
         THEN xFrom(InsertAt([items EXCEPT ![i] = WithPosX(@, 0)], i,
                             VirtualNewlineLink),
                    i + 2, measureText(items[i], <<>>), widthPixels)
         ELSE xFrom([items EXCEPT ![i] = WithPosX(@, posX)], i + 1,
                    posX + measureText(items[i], <<>>), widthPixels)
    ELSE IF IsNewline(items[i])
    THEN xFrom([items EXCEPT ![i] = WithPosX(@, 0)], i + 1, 0, widthPixels)
    ELSE IF IsCursor(items[i])
    THEN xFrom([items EXCEPT ![i] = WithPosX(@, posX)], i + 1, posX, widthPixels)
    ELSE xFrom(items, i + 1, posX, widthPixels)

recalcXPositions(items, widthPixels) == xFrom(items, 1, 0, widthPixels)

\* baseHeight * LINE_SPACING_MULT
lineHeightOf(maxAscent, maxDescent, maxFontSize, currentFontProperties) ==
    IF Max(maxAscent + maxDescent, maxFontSize) = 0
    THEN (currentFontProperties.size * LINE_SPACING_NUM) \div LINE_SPACING_DEN
    ELSE (Max(maxAscent + maxDescent, maxFontSize) * LINE_SPACING_NUM)
           \div LINE_SPACING_DEN

\* recalcYPositions, the CursorLink case: the scan back from the cursor for the
\* nearest TextLink (its place), a NewlineLink (0 - its place) or nothing (0)
RECURSIVE cursorLookBack(_, _)
cursorLookBack(items, j) ==
    IF j < 1 THEN 0
    ELSE IF IsText(items[j]) THEN j
    ELSE IF IsNewline(items[j]) THEN 0 - j
    ELSE cursorLookBack(items, j - 1)

\* the items of the line that started at lineStart and runs up to i, given
\* its lineHeight
withLineHeight(items, lineStart, i, lineHeight) ==
    [j \in 1..Len(items) |->
        IF j >= lineStart /\ j < i
        THEN [items[j] EXCEPT !.computed.lineHeight = lineHeight]
        ELSE items[j]]

RECURSIVE yFrom(_, _, _, _, _, _, _, _)

\* the CursorLink at i: k is what the scan back found, lineHeight the line's
\* height so far
yCursor(items, i, posY, lineStart, maxAscent, maxDescent, maxFontSize, cfp, k, lineHeight) ==
    IF k > 0
    THEN yFrom([items EXCEPT ![i].computed.posY = posY,
                             ![i].computed.height =
                                 Max(measureAscent(items[k].font)
                                       + measureDescent(items[k].font),
                                     items[k].font.size),
                             ![i].computed.lineHeight = lineHeight],
               i + 1, posY, lineStart,
               Max(maxAscent, measureAscent(items[k].font)),
               Max(maxDescent, measureDescent(items[k].font)),
               Max(maxFontSize, items[k].font.size), cfp)
    ELSE yFrom([items EXCEPT ![i].computed.posY = posY,
                             ![i].computed.height =
                                 IF k < 0 THEN lineHeight ELSE cfp.size,
                             ![i].computed.lineHeight = lineHeight],
               i + 1, posY, lineStart, maxAscent, maxDescent, maxFontSize, cfp)

\* the body of the loop at i, the items of the current line already holding
\* lineHeight
yStep(items, i, posY, lineStart, maxAscent, maxDescent, maxFontSize, cfp, lineHeight) ==
    IF i = Len(items) + 1 THEN items
    ELSE IF IsVirtual(items[i]) \/ IsNewline(items[i])
    THEN yFrom([items EXCEPT ![i].computed.posY = posY + lineHeight],
               i + 1, posY + lineHeight, i + 1, 0, 0, 0, cfp)
    ELSE IF IsText(items[i])
    THEN yFrom([items EXCEPT ![i].computed.posY = posY,
                             ![i].computed.ascent = measureAscent(items[i].font),
                             ![i].computed.descent = measureDescent(items[i].font)],
               i + 1, posY, lineStart,
               Max(maxAscent, measureAscent(items[i].font)),
               Max(maxDescent, measureDescent(items[i].font)),
               Max(maxFontSize, items[i].font.size), cfp)
    ELSE yCursor(items, i, posY, lineStart, maxAscent, maxDescent, maxFontSize,
                 cfp, cursorLookBack(items, i - 1), lineHeight)

\* the for loop of recalcYPositions from place i on (i runs to items.length + 1)
yFrom(items, i, posY, lineStart, maxAscent, maxDescent, maxFontSize, cfp) ==
    IF i > Len(items) + 1 THEN items
    ELSE yStep(withLineHeight(items, lineStart, i,
                              lineHeightOf(maxAscent, maxDescent, maxFontSize, cfp)),
               i, posY, lineStart, maxAscent, maxDescent, maxFontSize, cfp,
               lineHeightOf(maxAscent, maxDescent, maxFontSize, cfp))

recalcYPositions(items, cfp) == yFrom(items, 1, 0, 1, 0, 0, 0, cfp)

normalize(items) ==
    chunkTextLinks(
        ensureCursorExists(
            removeEmptyTextLinks(
                joinAdjacentTextLinks(
                    removeVirtualNewlines(
                        clearComputed(items))))))

\* the chain once recalcXPositions has left x
laidOut(ch, x) ==
    IF x.hung THEN [ch EXCEPT !.hung = TRUE]
    ELSE [ch EXCEPT !.items = recalcYPositions(x.items, ch.currentFontProperties)]

\* Chain.recalc on the chain ch; hung when recalcXPositions does not return
recalc(ch) ==
    laidOut(ch, recalcXPositions(normalize(ch.items), ch.widthPixels))

---------------------------------------------------------------------------
(* Chain: editing and navigation.  Each operator maps the chain before the  *)
(* call to the chain after it.                                              *)

NewChain(widthPixels, fontProperties) ==
    [items |-> <<CursorLink>>, widthPixels |-> widthPixels,
     currentFontProperties |-> fontProperties,
     selectionStart |-> null, selectionEnd |-> null,
     targetCursorX |-> undefined, hung |-> FALSE]

hasSelection(ch) ==
    /\ ch.selectionStart # null
    /\ ch.selectionEnd # null
    /\ ch.selectionStart # ch.selectionEnd

clearSelection(ch) == [ch EXCEPT !.selectionStart = null, !.selectionEnd = null]

\* a printableKeyPressed that puts the character behind the cursor
printableKeyBehindCursor(ch, char) ==
    recalc([ch EXCEPT !.items = InsertAt(@, cursorIdx(@) + 1, TextLink(<<char>>, ch.currentFontProperties))])

printableKeyPressed(ch, char) ==
    LET items == ch.items
        c == cursorIdx(items)
        fresh == TextLink(<<char>>, clone(ch.currentFontProperties))
        items1 ==
            IF c > 1
            THEN IF IsText(items[c - 1])
                 THEN IF doPropertiesMatch(items[c - 1].font, ch.currentFontProperties)
                      THEN [items EXCEPT ![c - 1].text = Append(@, char)]
                      ELSE InsertAt(items, c, fresh)
                 ELSE InsertAt(items, c, fresh)
            ELSE <<fresh>> \o items
    IN recalc([ch EXCEPT !.items = items1])

\* a scan back that cuts the first character of the run instead of the last
RECURSIVE backspaceFromFront(_, _)
backspaceFromFront(items, i) ==
    IF i < 1 THEN items
    ELSE IF IsText(items[i]) /\ Len(items[i].text) > 0
    THEN [items EXCEPT ![i].text = substring(@, 1, Len(@))]
    ELSE IF IsNewline(items[i]) THEN RemoveAt(items, i)
    ELSE backspaceFromFront(items, i - 1)

\* the scan back from the cursor of backspacePressed
RECURSIVE backspaceFrom(_, _)
backspaceFrom(items, i) ==
    IF i < 1 THEN items
    ELSE IF IsText(items[i]) /\ Len(items[i].text) > 0
    THEN [items EXCEPT ![i].text = substring(@, 0, Len(@) - 1)]
    ELSE IF IsNewline(items[i]) THEN RemoveAt(items, i)
    ELSE backspaceFrom(items, i - 1)

backspacePressed(ch) ==
    LET c == cursorIdx(ch.items)
    IN recalc([ch EXCEPT !.items = IF c > 1 THEN backspaceFrom(@, c - 1) ELSE @])

\* enterPressed with the splice left out (SetTextRoundTrip tells the two apart)
enterWithoutNewline(ch) == recalc(ch)

enterPressed(ch) ==
    recalc([ch EXCEPT !.items = InsertAt(@, cursorIdx(@), NewlineLink)])

\* Convert character position to item index and offset: <<1-based place, offset>>
RECURSIVE itemFromCharPos(_, _, _, _)
itemFromCharPos(items, i, pos, charPos) ==
    IF i > Len(items) THEN <<Len(items), 0>>
    ELSE IF IsText(items[i])
    THEN IF pos + Len(items[i].text) >= charPos THEN <<i, charPos - pos>>
         ELSE itemFromCharPos(items, i + 1, pos + Len(items[i].text), charPos)
    ELSE IF IsNewline(items[i])
    THEN IF pos >= charPos THEN <<i, 0>>
         ELSE itemFromCharPos(items, i + 1, pos + 1, charPos)
    ELSE itemFromCharPos(items, i + 1, pos, charPos)

getItemFromCharPosition(items, charPos) == itemFromCharPos(items, 1, 0, charPos)

\* a moveCursorToCharPosition that splits a run and leaves out its tail
moveCursorDroppingTail(ch, charPos) ==
    LET found == getItemFromCharPosition(ch.items, charPos)
        c == cursorIdx(ch.items)
        items == RemoveAt(ch.items, c)
        adjustedIdx == IF c < found[1] THEN found[1] - 1 ELSE found[1]
    IN recalc([ch EXCEPT !.items =
                 IF adjustedIdx > Len(items) THEN Append(items, CursorLink)
                 ELSE IF IsText(items[adjustedIdx]) /\ found[2] > 0
                 THEN InsertAt([items EXCEPT ![adjustedIdx].text = substring(@, 0, found[2])],
                               adjustedIdx + 1, CursorLink)
                 ELSE InsertAt(items, adjustedIdx, CursorLink)])

moveCursorToCharPosition(ch, charPos) ==
    LET found == getItemFromCharPosition(ch.items, charPos)
        itemIdx == found[1]
        charOffset == found[2]
        c == cursorIdx(ch.items)
        items == RemoveAt(ch.items, c)
        adjustedIdx == IF c < itemIdx THEN itemIdx - 1 ELSE itemIdx
        items1 ==
            IF adjustedIdx > Len(items) THEN Append(items, CursorLink)
            ELSE IF IsText(items[adjustedIdx]) /\ charOffset > 0
            THEN LET text == items[adjustedIdx].text
                     head == [items EXCEPT ![adjustedIdx].text =
                                              substring(text, 0, charOffset)]
                     withCursor == InsertAt(head, adjustedIdx + 1, CursorLink)
                 IN IF charOffset < Len(text)
                    THEN InsertAt(withCursor, adjustedIdx + 2,
                                  TextLink(substring(text, charOffset, Len(text)),
                                           clone(items[adjustedIdx].font)))
                    ELSE withCursor
            ELSE InsertAt(items, adjustedIdx, CursorLink)
    IN recalc([ch EXCEPT !.items = items1])

\* the scan back from the cursor (at place c) of leftArrowPressed
RECURSIVE leftFrom(_, _, _)
leftFrom(items, c, i) ==
    IF i < 1 THEN items
    ELSE IF IsText(items[i])
    THEN IF Len(items[i].text) = 1
         THEN InsertAt(RemoveAt(items, c), i, CursorLink)
         ELSE LET text == items[i].text
                  a == RemoveAt(items, c)
                  b == [a EXCEPT ![i].text = substring(text, 0, Len(text) - 1)]
                  d == InsertAt(b, i + 1, CursorLink)
              IN InsertAt(d, i + 2,
                          TextLink(substring(text, Len(text) - 1, Len(text)),
                                   clone(items[i].font)))
    ELSE IF IsNewline(items[i])
    THEN InsertAt(RemoveAt(items, c), i, CursorLink)
    ELSE leftFrom(items, c, i - 1)

leftArrowPressed(ch) ==
    LET ch1 == [ch EXCEPT !.targetCursorX = undefined]
        c == cursorIdx(ch.items)
    IN IF hasSelection(ch1)
       THEN clearSelection(moveCursorToCharPosition(ch1, ch1.selectionStart))
       ELSE recalc([ch1 EXCEPT !.items = IF c > 1 THEN leftFrom(@, c, c - 1) ELSE @])

\* a scan forward that stops behind a soft break as it does behind a hard one
RECURSIVE rightFromToBreak(_, _, _)
rightFromToBreak(items, c, i) ==
    IF i > Len(items) THEN items
    ELSE IF IsText(items[i])
    THEN LET text == items[i].text
             a == RemoveAt(items, c)
             adjustedIdx == IF c < i THEN i - 1 ELSE i
         IN IF Len(text) = 1
            THEN InsertAt(a, adjustedIdx + 1, CursorLink)
            ELSE LET b == [a EXCEPT ![adjustedIdx].text = substring(text, 1, Len(text))]
                     d == InsertAt(b, adjustedIdx,
                                   TextLink(substring(text, 0, 1), clone(items[i].font)))
                 IN InsertAt(d, adjustedIdx + 1, CursorLink)
    ELSE IF IsNewline(items[i]) \/ IsVirtual(items[i])
    THEN LET adjustedIdx == IF c < i THEN i - 1 ELSE i
         IN InsertAt(RemoveAt(items, c), adjustedIdx + 1, CursorLink)
    ELSE rightFromToBreak(items, c, i + 1)

\* the scan forward from the cursor (at place c) of rightArrowPressed
RECURSIVE rightFrom(_, _, _)
rightFrom(items, c, i) ==
    IF i > Len(items) THEN items
    ELSE IF IsText(items[i])
    THEN LET text == items[i].text
             a == RemoveAt(items, c)
             adjustedIdx == IF c < i THEN i - 1 ELSE i
         IN IF Len(text) = 1
            THEN InsertAt(a, adjustedIdx + 1, CursorLink)
            ELSE LET b == [a EXCEPT ![adjustedIdx].text = substring(text, 1, Len(text))]
                     d == InsertAt(b, adjustedIdx,
                                   TextLink(substring(text, 0, 1), clone(items[i].font)))
                 IN InsertAt(d, adjustedIdx + 1, CursorLink)
    ELSE IF IsNewline(items[i])
    THEN LET adjustedIdx == IF c < i THEN i - 1 ELSE i
         IN InsertAt(RemoveAt(items, c), adjustedIdx + 1, CursorLink)
    ELSE rightFrom(items, c, i + 1)

rightArrowPressed(ch) ==
    LET ch1 == [ch EXCEPT !.targetCursorX = undefined]
        c == cursorIdx(ch.items)
    IN IF hasSelection(ch1)
       THEN clearSelection(moveCursorToCharPosition(ch1, ch1.selectionEnd))
       ELSE recalc([ch1 EXCEPT !.items =
                      IF c < Len(@) THEN rightFrom(@, c, c + 1) ELSE @])

---------------------------------------------------------------------------
(* Hit testing: TextLink.clickHits, TextLink.getCharIdxFromX, Chain.clicked *)

\* v || 0
OrZero(v) == IF v = undefined THEN 0 ELSE v

\* v || currentFontProperties.size * LINE_SPACING_MULT
lineHeightOr(v, cfp) ==
    IF v = undefined \/ v = 0
    THEN (cfp.size * LINE_SPACING_NUM) \div LINE_SPACING_DEN
    ELSE v

\* lineHeight - (ascent + descent) of a TextLink, with lineHeight as given
gapSpace(it, lineHeight) ==
    lineHeight - (OrZero(it.computed.ascent) + OrZero(it.computed.descent))

\* twice topY and twice bottomY of clickHits
top2(it, lineHeight) ==
    2 * it.computed.posY - 2 * OrZero(it.computed.ascent) - gapSpace(it, lineHeight)
bottom2(it, lineHeight) ==
    2 * it.computed.posY + 2 * OrZero(it.computed.descent) + gapSpace(it, lineHeight)

clickHits(it, x, y) ==
    /\ x >= it.computed.posX
    /\ x <= it.computed.posX + measureText(it, <<>>)
    /\ 2 * y >= top2(it, OrZero(it.computed.lineHeight))
    /\ 2 * y <= bottom2(it, OrZero(it.computed.lineHeight))

RECURSIVE charIdxFrom(_, _, _, _)
charIdxFrom(it, x, charIdx, charPosX) ==
    IF charIdx >= Len(it.text) THEN Len(it.text)
    ELSE LET w == measureText(it, substring(it.text, charIdx, charIdx + 1))
         IN IF x >= charPosX /\ x <= charPosX + w
            THEN (IF 2 * x > 2 * charPosX + w THEN charIdx + 1 ELSE charIdx)
            ELSE charIdxFrom(it, x, charIdx + 1, charPosX + w)

getCharIdxFromX(it, x) == charIdxFrom(it, x, 0, it.computed.posX)

\* clicked, fallback 1: four times the top of the line span of the TextLink at i,
\* extended to the midpoint with the line break above it
RECURSIVE spanTop4(_, _, _, _)
spanTop4(items, i, j, originalTop2) ==
    IF j < 1 THEN 2 * originalTop2
    ELSE IF IsNewline(items[j]) \/ IsVirtual(items[j])
    THEN IF items[j].computed.posY < items[i].computed.posY
         THEN 2 * items[j].computed.posY + originalTop2
         ELSE spanTop4(items, i, j - 1, originalTop2)
    ELSE IF IsText(items[j]) THEN 2 * originalTop2
    ELSE spanTop4(items, i, j - 1, originalTop2)

\* four times the bottom of that span, extended to the midpoint with what follows
RECURSIVE spanBottom4(_, _, _, _, _)
spanBottom4(items, i, j, originalBottom2, gap) ==
    IF j > Len(items) THEN 2 * originalBottom2
    ELSE IF IsText(items[j])
    THEN originalBottom2
           + (2 * items[j].computed.posY - 2 * OrZero(items[j].computed.ascent) - gap)
    ELSE IF IsNewline(items[j]) \/ IsVirtual(items[j])
    THEN IF items[j].computed.posY > items[i].computed.posY
         THEN originalBottom2 + 2 * items[j].computed.posY
         ELSE spanBottom4(items, i, j + 1, originalBottom2, gap)
    ELSE spanBottom4(items, i, j + 1, originalBottom2, gap)

lineContainsY(items, i, y, cfp) ==
    LET lineHeight == lineHeightOr(items[i].computed.lineHeight, cfp)
        gap == gapSpace(items[i], lineHeight)
    IN /\ 4 * y >= spanTop4(items, i, i - 1, top2(items[i], lineHeight))
       /\ 4 * y <= spanBottom4(items, i, i + 1, bottom2(items[i], lineHeight), gap)

\* candidateLines in the order pushed (the scan runs from the last item back),
\* one entry per distinct posY
RECURSIVE candidateLines(_, _, _, _, _)
candidateLines(items, i, y, cfp, acc) ==
    IF i < 1 THEN acc
    ELSE IF /\ IsText(items[i])
            /\ lineContainsY(items, i, y, cfp)
            /\ \A k \in 1..Len(acc) : acc[k].posY # items[i].computed.posY
         THEN candidateLines(items, i - 1, y, cfp,
                             Append(acc, [posY |-> items[i].computed.posY,
                                          distance |-> Abs(y - items[i].computed.posY)]))
         ELSE candidateLines(items, i - 1, y, cfp, acc)

\* candidateLines.sort((a, b) => a.distance - b.distance)[0]: the sort is stable
closestLine(cands) ==
    LET k == CHOOSE k \in 1..Len(cands) :
                 /\ \A m \in 1..Len(cands) : cands[k].distance <= cands[m].distance
                 /\ \A m \in 1..(k - 1) : cands[m].distance > cands[k].distance
    IN cands[k].posY

TextOnLine(items, posY) ==
    {k \in 1..Len(items) : IsText(items[k]) /\ items[k].computed.posY = posY}

SetMin(S) == CHOOSE m \in S : \A n \in S : m <= n
SetMax(S) == CHOOSE m \in S : \A n \in S : m >= n

\* placeOnLine with the comparison of x left out: the cursor always goes to the
\* beginning of the line (ClickBeyondLinePlacesAtLineEnd tells the two apart)
placeAtLineStart(items, matchingLinePosY, x) ==
    InsertAt(RemoveAt(items, cursorIdx(items)),
             SetMin(TextOnLine(items, matchingLinePosY)), CursorLink)

\* the cursor placed on the matched text line
placeOnLine(items, matchingLinePosY, x) ==
    LET onLine == TextOnLine(items, matchingLinePosY)
        firstTextIdx == SetMin(onLine)
        lastTextIdx == SetMax(onLine)
        lastTextEndX == items[lastTextIdx].computed.posX
                          + measureText(items[lastTextIdx], <<>>)
        c == cursorIdx(items)
        removed == RemoveAt(items, c)
    IN IF x >= lastTextEndX
       THEN LET adjustedLastTextIdx == IF c <= lastTextIdx THEN lastTextIdx - 1
                                       ELSE lastTextIdx
            IN InsertAt(removed, adjustedLastTextIdx + 1, CursorLink)
       ELSE InsertAt(removed, firstTextIdx, CursorLink)

\* fallback 2: the line break at i starts an empty line whose span contains y
RECURSIVE nextTextIdx(_, _)
nextTextIdx(items, j) ==
    IF j > Len(items) THEN 0
    ELSE IF IsText(items[j]) THEN j
    ELSE nextTextIdx(items, j + 1)

emptyLineHit(items, i, y, cfp) ==
    /\ IsNewline(items[i]) \/ IsVirtual(items[i])
    /\ items[i].computed.posY # undefined
    /\ \/ i = Len(items)
       \/ IsNewline(items[i + 1])
       \/ IsVirtual(items[i + 1])
       \/ IsCursor(items[i + 1])
    /\ LET lineHeight == lineHeightOr(items[i].computed.lineHeight, cfp)
           posY == items[i].computed.posY
           n == nextTextIdx(items, i + 1)
           \* four times bottomY
           bottom4 == IF n = 0 THEN 4 * posY
                      ELSE 2 * posY + top2(items[n], items[n].computed.lineHeight)
       IN /\ y >= posY - lineHeight
          /\ 4 * y <= bottom4

\* fallback 3: y < firstLineY - 50 (firstLineY is Infinity without text)
aboveFirstLine(items, y) ==
    LET texts == {k \in 1..Len(items) :
                     IsText(items[k]) /\ items[k].computed.posY # undefined}
    IN \/ texts = {}
       \/ y < SetMin({items[k].computed.posY : k \in texts}) - 50

clicked(ch, x, y) ==
    LET ch1 == [ch EXCEPT !.targetCursorX = undefined]
        items == ch.items
        cfp == ch.currentFontProperties
        c == cursorIdx(items)
        hits == {i \in 1..Len(items) : IsText(items[i]) /\ clickHits(items[i], x, y)}
        cands == candidateLines(items, Len(items), y, cfp, <<>>)
        empties == {i \in 1..Len(items) : emptyLineHit(items, i, y, cfp)}
    IN IF hits # {}
       THEN LET i == SetMin(hits)
                text == items[i].text
                charIdx == getCharIdxFromX(items[i], x)
                a == RemoveAt(items, c)
                adjustedIdx == IF c < i THEN i - 1 ELSE i
                b == [a EXCEPT ![adjustedIdx].text = substring(text, 0, charIdx)]
                d == InsertAt(b, adjustedIdx + 1, CursorLink)
                e == InsertAt(d, adjustedIdx + 2,
                              TextLink(substring(text, charIdx, Len(text)),
                                       clone(items[i].font)))
            IN recalc([ch1 EXCEPT !.items = e])
       ELSE IF Len(cands) > 0
       THEN recalc([ch1 EXCEPT !.items = placeOnLine(items, closestLine(cands), x)])
       ELSE IF empties # {}
       THEN LET i == SetMin(empties)
                adjustedIdx == IF c <= i THEN i ELSE i + 1
            IN recalc([ch1 EXCEPT !.items =
                          InsertAt(RemoveAt(items, c), adjustedIdx, CursorLink)])
       ELSE IF aboveFirstLine(items, y)
       THEN recalc([ch1 EXCEPT !.items = <<CursorLink>> \o RemoveAt(items, c)])
       ELSE recalc([ch1 EXCEPT !.items = Append(RemoveAt(items, c), CursorLink)])

\* an upArrowPressed that leaves the cursor where it is when no line is above
upArrowKeepingCursor(ch) ==
    LET c == cursorIdx(ch.items)
        cursor == ch.items[c]
        currentX == IF ch.targetCursorX # undefined THEN ch.targetCursorX
                    ELSE cursor.computed.posX
        currentY == cursor.computed.posY
        ch1 == [ch EXCEPT !.targetCursorX = currentX]
        above == {i \in 1..(c - 1) :
                     /\ ch.items[i].computed.posY # undefined
                     /\ currentY # undefined
                     /\ ch.items[i].computed.posY < currentY}
    IN IF above = {}
       THEN recalc(ch1)
       ELSE clicked(ch1, currentX, ch.items[SetMax(above)].computed.posY)

upArrowPressed(ch) ==
    LET c == cursorIdx(ch.items)
        cursor == ch.items[c]
        currentX == IF ch.targetCursorX # undefined THEN ch.targetCursorX
                    ELSE cursor.computed.posX
        currentY == cursor.computed.posY
        ch1 == [ch EXCEPT !.targetCursorX = currentX]
        above == {i \in 1..(c - 1) :
                     /\ ch.items[i].computed.posY # undefined
                     /\ currentY # undefined
                     /\ ch.items[i].computed.posY < currentY}
    IN IF above = {}
       THEN recalc([ch1 EXCEPT !.items = <<CursorLink>> \o RemoveAt(@, c)])
       ELSE clicked(ch1, currentX, ch.items[SetMax(above)].computed.posY)

downArrowPressed(ch) ==
    LET c == cursorIdx(ch.items)
        cursor == ch.items[c]
        currentX == IF ch.targetCursorX # undefined THEN ch.targetCursorX
                    ELSE cursor.computed.posX
        currentY == cursor.computed.posY
        ch1 == [ch EXCEPT !.targetCursorX = currentX]
        below == {i \in (c + 1)..Len(ch.items) :
                     /\ ch.items[i].computed.posY # undefined
                     /\ currentY # undefined
                     /\ ch.items[i].computed.posY > currentY}
    IN IF below = {}
       THEN recalc([ch1 EXCEPT !.items = Append(RemoveAt(@, c), CursorLink)])
       ELSE clicked(ch1, currentX, ch.items[SetMin(below)].computed.posY)

setFontSize(ch, size) == [ch EXCEPT !.currentFontProperties.size = size]

setWidth(ch, widthPixels) == recalc([ch EXCEPT !.widthPixels = widthPixels])

---------------------------------------------------------------------------
(* Chain: selection in flattened character positions *)

RECURSIVE charPosFrom(_, _, _)
charPosFrom(items, i, itemIdx) ==
    IF i >= itemIdx \/ i > Len(items) THEN 0
    ELSE (IF IsText(items[i]) THEN Len(items[i].text)
          ELSE IF IsNewline(items[i]) THEN 1 ELSE 0)
         + charPosFrom(items, i + 1, itemIdx)

\* itemIdx is the 1-based place of the item
getCharPosition(items, itemIdx, charOffset) ==
    charPosFrom(items, 1, itemIdx)
      + (IF itemIdx <= Len(items) /\ IsText(items[itemIdx])
         THEN Min(charOffset, Len(items[itemIdx].text)) ELSE 0)

setSelection(ch, startItemIdx, startCharOffset, endItemIdx, endCharOffset) ==
    LET a == getCharPosition(ch.items, startItemIdx, startCharOffset)
        b == getCharPosition(ch.items, endItemIdx, endCharOffset)
    IN [ch EXCEPT !.selectionStart = Min(a, b), !.selectionEnd = Max(a, b)]

---------------------------------------------------------------------------
(* CanvasEditor *)

\* this.maxHistorySize = 100
defaultMaxHistorySize == 100

RECURSIVE textOf(_)
textOf(items) ==
    IF Len(items) = 0 THEN <<>>
    ELSE (IF IsText(items[1]) THEN items[1].text
          ELSE IF IsNewline(items[1]) THEN <<"\n">> ELSE <<>>)
         \o textOf(Tail(items))

getText(ch) == textOf(ch.items)

\* the flattened position of the cursor: characters and hard breaks before it
cursorPos(ch) == Len(textOf(SubSeq(ch.items, 1, cursorIdx(ch.items) - 1)))

selectAll(ch) ==
    LET totalChars == Len(getText(ch))
    IN IF totalChars > 0
       THEN [ch EXCEPT !.selectionStart = 0, !.selectionEnd = totalChars]
       ELSE ch

\* deleteSelection's pass over the items: pos is the running position as the
\* code keeps it (advanced by the length of the text as already cut)
RECURSIVE deleteFrom(_, _, _, _, _)
deleteFrom(items, i, pos, selStart, selEnd) ==
    IF i > Len(items) THEN <<>>
    ELSE IF IsText(items[i])
    THEN LET len == Len(items[i].text)
             itemStart == pos
             itemEnd == pos + len
             startOffset == Max(0, selStart - itemStart)
             endOffset == Min(len, selEnd - itemStart)
             hit == itemEnd > selStart /\ itemStart < selEnd
             whole == hit /\ startOffset = 0 /\ endOffset = len
             cut == IF ~hit \/ whole THEN items[i].text
                    ELSE substring(items[i].text, 0, startOffset)
                           \o substring(items[i].text, endOffset, len)
         IN (IF whole THEN <<>> ELSE <<[items[i] EXCEPT !.text = cut]>>)
              \o deleteFrom(items, i + 1, pos + Len(cut), selStart, selEnd)
    ELSE IF IsNewline(items[i])
    THEN (IF pos >= selStart /\ pos < selEnd THEN <<>> ELSE <<items[i]>>)
           \o deleteFrom(items, i + 1, pos + 1, selStart, selEnd)
    ELSE <<items[i]>> \o deleteFrom(items, i + 1, pos, selStart, selEnd)

deleteSelection(ch) ==
    IF ~hasSelection(ch) THEN ch
    ELSE recalc(clearSelection(
             [ch EXCEPT !.items = deleteFrom(@, 1, 0, ch.selectionStart,
                                             ch.selectionEnd)]))

\* for (let char of text): enterPressed or printableKeyPressed, one per character
RECURSIVE insertText(_, _)
insertText(ch, text) ==
    IF Len(text) = 0 \/ ch.hung THEN ch
    ELSE insertText(IF Head(text) = "\n" THEN enterPressed(ch)
                    ELSE printableKeyPressed(ch, Head(text)),
                    Tail(text))

setText(ch, text) == insertText([ch EXCEPT !.items = <<CursorLink>>], text)

\* the deep copy takeSnapshot makes of the chain
snapshotOf(ch) ==
    LET kept == SelectSeq(ch.items, LAMBDA it : ~IsVirtual(it))
    IN [items |-> [i \in 1..Len(kept) |->
                     IF IsText(kept[i])
                     THEN [type |-> "TextLink", text |-> kept[i].text,
                           fontProperties |->
                               [size |-> kept[i].font.size,
                                family |-> kept[i].font.family,
                                weight |-> kept[i].font.weight,
                                style |-> kept[i].font.style]]
                     ELSE [type |-> kept[i].kind, text |-> <<>>,
                           fontProperties |->
                               [size |-> 0, family |-> "", weight |-> "",
                                style |-> ""]]],
        selectionStart |-> ch.selectionStart,
        selectionEnd |-> ch.selectionEnd]

\* The editor: its chain, history and historyIndex.  historyIndex is 0-based:
\* history[k + 1] is the code's history[k]
EditorOf(ch, hist, idx) == [chain |-> ch, history |-> hist, historyIndex |-> idx]

\* a push that drops the oldest snapshot and advances historyIndex all the same
pushSnapshotAdvancing(ed, pushed) ==
    IF Len(pushed) > maxHistorySize
    THEN [ed EXCEPT !.history = Tail(pushed), !.historyIndex = @ + 1]
    ELSE [ed EXCEPT !.history = pushed, !.historyIndex = @ + 1]

\* history once the snapshot is pushed
pushSnapshot(ed, pushed) ==
    IF Len(pushed) > maxHistorySize
    THEN [ed EXCEPT !.history = Tail(pushed)]
    ELSE [ed EXCEPT !.history = pushed, !.historyIndex = @ + 1]

\* a takeSnapshot that keeps the snapshots after historyIndex
takeSnapshotKeepingForward(ed) == pushSnapshot(ed, Append(ed.history, snapshotOf(ed.chain)))

takeSnapshot(ed) ==
    pushSnapshot(ed,
        Append(IF ed.historyIndex < Len(ed.history) - 1
               THEN SubSeq(ed.history, 1, ed.historyIndex + 1)
               ELSE ed.history,
               snapshotOf(ed.chain)))

restoreSnapshot(ch, snapshot) ==
    recalc([ch EXCEPT
              !.items = [i \in 1..Len(snapshot.items) |->
                           LET e == snapshot.items[i] IN
                           IF e.type = "TextLink"
                           THEN TextLink(e.text,
                                         FontProperties(e.fontProperties.size,
                                                        e.fontProperties.family,
                                                        e.fontProperties.weight,
                                                        e.fontProperties.style))
                           ELSE IF e.type = "CursorLink" THEN CursorLink
                           ELSE NewlineLink],
              !.selectionStart = snapshot.selectionStart,
              !.selectionEnd = snapshot.selectionEnd])

\* an undo that steps back without looking at historyIndex
undoUnguarded(ed) == [ed EXCEPT !.historyIndex = @ - 1]

\* an undo that steps back and leaves the document as it is
undoKeepingDocument(ed) ==
    IF ed.historyIndex <= 0 THEN ed ELSE [ed EXCEPT !.historyIndex = @ - 1]

undo(ed) ==
    IF ed.historyIndex <= 0 THEN ed
    ELSE [ed EXCEPT !.historyIndex = @ - 1,
                    !.chain = restoreSnapshot(@, ed.history[ed.historyIndex])]

redo(ed) ==
    IF ed.historyIndex >= Len(ed.history) - 1 THEN ed
    ELSE [ed EXCEPT !.historyIndex = @ + 1,
                    !.chain = restoreSnapshot(@, ed.history[ed.historyIndex + 2])]

canUndo(ed) == ed.historyIndex > 0

canRedo(ed) == ed.historyIndex < Len(ed.history) - 1

\* applyFontSizeToSelection's pass over the items
RECURSIVE resizeFrom(_, _, _, _, _, _)
resizeFrom(items, i, pos, selStart, selEnd, size) ==
    IF i > Len(items) THEN <<>>
    ELSE IF IsText(items[i])
    THEN <<IF pos + Len(items[i].text) > selStart /\ pos < selEnd
           THEN [items[i] EXCEPT !.font.size = size] ELSE items[i]>>
           \o resizeFrom(items, i + 1, pos + Len(items[i].text), selStart, selEnd, size)
    ELSE <<items[i]>>
           \o resizeFrom(items, i + 1, IF IsNewline(items[i]) THEN pos + 1 ELSE pos,
                         selStart, selEnd, size)

applyFontSizeToSelection(ch, size) ==
    recalc([ch EXCEPT !.items = resizeFrom(@, 1, 0, ch.selectionStart, ch.selectionEnd, size)])

\* a setFontSize that gives the size to every run, selected or not
setFontSizeOfEveryRun(ch, size) ==
    recalc([setFontSize(ch, size) EXCEPT !.items =
              [i \in 1..Len(ch.items) |->
                 IF ch.items[i].kind = "TextLink" THEN [ch.items[i] EXCEPT !.font.size = size]
                 ELSE ch.items[i]]])

\* CanvasEditor.setFontSize(size), up to its render(): the chain's current size,
\* and the size of the selected runs when there is a selection
setFontSizeOfSelection(ch, size) ==
    IF hasSelection(ch) THEN applyFontSizeToSelection(setFontSize(ch, size), size)
    ELSE setFontSize(ch, size)

\* FontProperties.toggleBold() .. toggleSubscript(), on the font f
fontToggleBold(f) == [f EXCEPT !.weight = IF @ = "bold" THEN "normal" ELSE "bold"]

fontToggleItalic(f) == [f EXCEPT !.style = IF @ = "italic" THEN "normal" ELSE "italic"]

fontToggleUnderline(f) == [f EXCEPT !.underline = ~@]

fontToggleStrikethrough(f) == [f EXCEPT !.strikethrough = ~@]

\* a toggleSuperscript that leaves subscript as it is
fontToggleSuperscriptOnly(f) == [f EXCEPT !.superscript = ~@]

fontToggleSuperscript(f) ==
    [f EXCEPT !.subscript = IF @ THEN FALSE ELSE @, !.superscript = ~@]

fontToggleSubscript(f) ==
    [f EXCEPT !.superscript = IF @ THEN FALSE ELSE @, !.subscript = ~@]

\* the flattened position at which items[i] starts
RECURSIVE offsetOf(_, _)
offsetOf(items, i) ==
    IF i <= 1 THEN 0
    ELSE offsetOf(items, i - 1)
           + (IF IsText(items[i - 1]) THEN Len(items[i - 1].text)
              ELSE IF IsNewline(items[i - 1]) THEN 1 ELSE 0)

\* itemEnd > selStart && itemStart < selEnd, for the TextLink items[i]
overlapsSelection(ch, i) ==
    /\ IsText(ch.items[i])
    /\ offsetOf(ch.items, i) + Len(ch.items[i].text) > ch.selectionStart
    /\ offsetOf(ch.items, i) < ch.selectionEnd

\* valueFn is the function from a property's current value to its new one
applyFormattingToSelection(ch, property, valueFn) ==
    recalc([ch EXCEPT !.items =
              [i \in 1..Len(ch.items) |->
                 IF overlapsSelection(ch, i)
                 THEN [ch.items[i] EXCEPT !.font[property] = valueFn[@]]
                 ELSE ch.items[i]]])

\* (current) => !current, () => false, and the toggle of toggleBold
Not == [current \in BOOLEAN |-> ~current]

False == [current \in BOOLEAN |-> FALSE]

OtherWeight == [current \in {"normal", "bold"} |-> IF current = "bold" THEN "normal" ELSE "bold"]

\* the colors setTextColor is given, and the colors a run can have
Colors == {"#ff0000"}

RunColors == Colors \cup {"#000000"}

\* CanvasEditor.toggleBold() .. setTextColor(color), up to their render()
toggleBold(ed) ==
    IF hasSelection(ed.chain)
    THEN [takeSnapshot(ed) EXCEPT !.chain = applyFormattingToSelection(@, "weight", OtherWeight)]
    ELSE [ed EXCEPT !.chain.currentFontProperties = fontToggleBold(@)]

toggleUnderline(ed) ==
    IF hasSelection(ed.chain)
    THEN [takeSnapshot(ed) EXCEPT !.chain = applyFormattingToSelection(@, "underline", Not)]
    ELSE [ed EXCEPT !.chain.currentFontProperties = fontToggleUnderline(@)]

toggleStrikethrough(ed) ==
    IF hasSelection(ed.chain)
    THEN [takeSnapshot(ed) EXCEPT !.chain = applyFormattingToSelection(@, "strikethrough", Not)]
    ELSE [ed EXCEPT !.chain.currentFontProperties = fontToggleStrikethrough(@)]

\* a toggleSuperscript that does not clear subscript on the selection
toggleSuperscriptOnly(ed) ==
    IF hasSelection(ed.chain)
    THEN [takeSnapshot(ed) EXCEPT !.chain = applyFormattingToSelection(@, "superscript", Not)]
    ELSE [ed EXCEPT !.chain.currentFontProperties = fontToggleSuperscriptOnly(@)]

toggleSuperscript(ed) ==
    IF hasSelection(ed.chain)
    THEN [takeSnapshot(ed) EXCEPT !.chain = applyFormattingToSelection(applyFormattingToSelection(@, "subscript", False), "superscript", Not)]
    ELSE [ed EXCEPT !.chain.currentFontProperties = fontToggleSuperscript(@)]

toggleSubscript(ed) ==
    IF hasSelection(ed.chain)
    THEN [takeSnapshot(ed) EXCEPT !.chain = applyFormattingToSelection(applyFormattingToSelection(@, "superscript", False), "subscript", Not)]
    ELSE [ed EXCEPT !.chain.currentFontProperties = fontToggleSubscript(@)]

setTextColor(ed, color) ==
    IF hasSelection(ed.chain)
    THEN [takeSnapshot(ed) EXCEPT !.chain = applyFormattingToSelection(@, "color", [current \in RunColors |-> color])]
    ELSE [ed EXCEPT !.chain.currentFontProperties.color = color]

\* clearFormatting(): the selected runs get the default font's size and family
\* and nothing else; defaultFontProperties is the object the chain holds as
\* currentFontProperties
clearFormatting(ed) ==
    IF ~hasSelection(ed.chain) THEN ed
    ELSE [takeSnapshot(ed) EXCEPT !.chain =
            recalc([@ EXCEPT !.items =
                      [i \in 1..Len(ed.chain.items) |->
                         IF overlapsSelection(ed.chain, i)
                         THEN [ed.chain.items[i] EXCEPT !.font =
                                 FontProperties(ed.chain.currentFontProperties.size,
                                                ed.chain.currentFontProperties.family,
                                                "normal", "normal")]
                         ELSE ed.chain.items[i]]])]

toggleItalic(ed) ==
    IF hasSelection(ed.chain)
    THEN [takeSnapshot(ed) EXCEPT !.chain = applyFormattingToSelection(@, "style", [current \in {"normal", "italic"} |-> IF current = "italic" THEN "normal" ELSE "italic"])]
    ELSE [ed EXCEPT !.chain.currentFontProperties = fontToggleItalic(@)]

setFontFamily(ch, family) == [ch EXCEPT !.currentFontProperties.family = family]

applyFontFamilyToSelection(ch, family) ==
    recalc([ch EXCEPT !.items =
              [i \in 1..Len(ch.items) |->
                 IF overlapsSelection(ch, i)
                 THEN [ch.items[i] EXCEPT !.font.family = family]
                 ELSE ch.items[i]]])

\* CanvasEditor.setFontFamily(family), up to its render()
setFontFamilyOfSelection(ch, family) ==
    IF hasSelection(ch) THEN applyFontFamilyToSelection(setFontFamily(ch, family), family)
    ELSE setFontFamily(ch, family)

clear(ed) ==
    [takeSnapshot(ed) EXCEPT !.chain = recalc([@ EXCEPT !.items = <<CursorLink>>])]

\* padding: options.padding || 10
padding == 10

\* getCurrentParagraphIndex(): the hard breaks before the cursor
getCurrentParagraphIndex(ch) ==
    Cardinality({i \in 1..(cursorIdx(ch.items) - 1) : IsNewline(ch.items[i])})

\* adjustForAlignment: the width of the line items[a .. b - 1]
RECURSIVE lineWidthOf(_, _, _)
lineWidthOf(items, a, b) ==
    IF a >= b THEN 0
    ELSE (IF IsText(items[a]) THEN measureText(items[a], items[a].text) ELSE 0)
           + lineWidthOf(items, a + 1, b)

\* adjustForAlignment: computed.posX += offset for the items of the line
shiftLine(items, a, b, offset) ==
    [j \in 1..Len(items) |->
        IF j >= a /\ j < b /\ items[j].computed.posX # undefined
        THEN [items[j] EXCEPT !.computed.posX = @ + offset]
        ELSE items[j]]

\* adjustForAlignment's loop: i runs one past the last item; centred holds the
\* paragraphs whose alignment is 'center'; editorWidth is the chain's width
RECURSIVE alignFrom(_, _, _, _, _, _)
alignFrom(items, i, currentParagraph, lineStartIdx, centred, editorWidth) ==
    IF i > Len(items) + 1 THEN items
    ELSE IF i = Len(items) + 1 \/ IsNewline(items[i]) \/ IsVirtual(items[i])
    THEN alignFrom(IF currentParagraph \in centred
                   THEN shiftLine(items, lineStartIdx, i,
                                  Max(0, (editorWidth - lineWidthOf(items, lineStartIdx, i)) \div 2))
                   ELSE items,
                   i + 1,
                   IF i <= Len(items) /\ IsNewline(items[i])
                   THEN currentParagraph + 1 ELSE currentParagraph,
                   i + 1, centred, editorWidth)
    ELSE alignFrom(items, i + 1, currentParagraph, lineStartIdx, centred, editorWidth)

adjustForAlignment(ch, centred) ==
    [ch EXCEPT !.items = alignFrom(@, 1, 0, 1, centred, ch.widthPixels)]

\* a render() that also drops the selection
renderCollapsed(ch, centred) == adjustForAlignment(clearSelection(ch), centred)

\* render(): adjustForAlignment, then drawing, which reads only
render(ch, centred) == adjustForAlignment(ch, centred)

\* paragraphAlignments after setAlignment(alignment)
alignmentsAfter(ch, centred, alignment) ==
    IF alignment = "left" THEN centred \ {getCurrentParagraphIndex(ch)}
    ELSE centred \cup {getCurrentParagraphIndex(ch)}

\* setAlignment(alignment): takeSnapshot, the alignment set or deleted, recalc, render
setAlignment(ed, centred, alignment) ==
    [takeSnapshot(ed) EXCEPT !.chain =
        render(recalc(@), alignmentsAfter(ed.chain, centred, alignment))]

\* toggleCenterAlign(): the alignment it hands to setAlignment
toggled(ch, centred) ==
    IF getCurrentParagraphIndex(ch) \in centred THEN "left" ELSE "center"

\* options.cursorBlinkRate || 530
cursorBlinkRate == 530

\* startAnimationLoop, animate(): whether the frame at time t toggles the cursor
blinks(t, lastBlink, cycleStart) ==
    /\ ~(t - cycleStart < cursorBlinkRate * 2)
    /\ t - lastBlink > cursorBlinkRate

\* animate(): cursorVisible after the frame at time t
visibleAfter(visible, t, lastBlink, cycleStart) ==
    IF t - cycleStart < cursorBlinkRate * 2 THEN TRUE
    ELSE IF t - lastBlink > cursorBlinkRate THEN ~visible
    ELSE visible

\* animate(): needsRender
needsRender(visible, t, lastBlink, cycleStart) ==
    IF t - cycleStart < cursorBlinkRate * 2 THEN ~visible
    ELSE t - lastBlink > cursorBlinkRate

\* resize(width, height): editorWidth = width - padding * 2
resize(ch, width) == setWidth(ch, width - padding * 2)

\* handleKeyDown, Enter or a printable key, once a selection (if any) is deleted
keyTyped(ch, key) ==
    IF ch.hung THEN ch
    ELSE IF key = "Enter" THEN enterPressed(ch)
    ELSE printableKeyPressed(ch, key)

\* handleKeyDown for the keys that edit: Backspace, Enter, a printable character,
\* up to its render().  The snapshot is taken before the edit
handleKeyDown(ed, key) ==
    [takeSnapshot(ed) EXCEPT !.chain =
        IF key = "Backspace"
        THEN (IF hasSelection(@) THEN deleteSelection(@) ELSE backspacePressed(@))
        ELSE keyTyped(IF hasSelection(@) THEN deleteSelection(@) ELSE @, key)]

---------------------------------------------------------------------------
(* Inputs *)

Widths == {10, 20, 780}
Sizes == {16, 32}
Chars == {"a", " "}
ClickXs == {-10, 5, 12, 100}
ClickYs == {-100, 0, 24, 48, 200}

\* the texts of at most n characters over the alphabet A
RECURSIVE TextsUpTo(_, _)
TextsUpTo(A, n) ==
    IF n = 0 THEN {<<>>}
    ELSE TextsUpTo(A, n - 1)
           \cup {Append(t, c) : t \in TextsUpTo(A, n - 1), c \in A}

---------------------------------------------------------------------------
(* History variables *)

NoRun == [active |-> FALSE, startX |-> undefined, usedX |-> undefined]

\* a vertical move from chain ch.  The run keeps the column it started in: the
\* X its first move works with, which is the cursor's X unless a target X is
\* still stored from before the run; and the X the latest move with a target
\* line has handed to clicked()
runAfterVertical(ch, hasTarget) ==
    LET cursorX == ch.items[cursorIdx(ch.items)].computed.posX
        currentX == IF ch.targetCursorX # undefined THEN ch.targetCursorX
                    ELSE cursorX
    IN IF scope.recording
       THEN [active |-> TRUE,
             startX |-> IF run.active THEN run.startX ELSE currentX,
             usedX |-> IF hasTarget THEN currentX ELSE run.usedX]
       ELSE NoRun

hasLineAbove(ch) ==
    LET c == cursorIdx(ch.items)
        currentY == ch.items[c].computed.posY
    IN \E i \in 1..(c - 1) :
          /\ ch.items[i].computed.posY # undefined
          /\ currentY # undefined
          /\ ch.items[i].computed.posY < currentY

hasLineBelow(ch) ==
    LET c == cursorIdx(ch.items)
        currentY == ch.items[c].computed.posY
    IN \E i \in (c + 1)..Len(ch.items) :
          /\ ch.items[i].computed.posY # undefined
          /\ currentY # undefined
          /\ ch.items[i].computed.posY > currentY

\* last: the call made last, when it is one whose result is compared with what
\* it was given: the text given or found, and the selection found
NoLast == [op |-> "", text |-> <<>>, s |-> null, e |-> null]
Called(op, text, s, e) ==
    IF scope.recording THEN [op |-> op, text |-> text, s |-> s, e |-> e]
    ELSE NoLast

NoSession ==
    [phase |-> "edit", edits |-> 0, undos |-> 0, redos |-> 0, finalText |-> <<>>]

---------------------------------------------------------------------------
(* The state machine *)

Editor == EditorOf(chain, history, historyIndex)

\* the clipboard with nothing on it and no promise pending: writes are the texts
\* of the writeText promises not yet settled, reads the number of readText
\* promises not yet settled
EmptyClipboard == [text |-> <<>>, writes |-> <<>>, reads |-> 0]

Scope(maxLen, maxEdits, recording) ==
    [maxLen |-> maxLen, maxEdits |-> maxEdits, recording |-> recording,
     build |-> "docs"]

\* the same for a behaviour of the editor built from src/
SourceScope(maxLen, maxEdits) ==
    [maxLen |-> maxLen, maxEdits |-> maxEdits, recording |-> TRUE, build |-> "src"]

\* new CanvasEditor(canvas) with canvas.width - 2 * padding = widthPixels
FreshWith(widthPixels, limit) ==
    LET ed == takeSnapshot(EditorOf(NewChain(widthPixels, defaultFontProperties),
                                    <<>>, -1))
    IN /\ maxHistorySize = limit
       /\ chain = ed.chain
       /\ history = ed.history
       /\ historyIndex = ed.historyIndex
       /\ run = NoRun
       /\ last = NoLast
       /\ session = NoSession
       /\ paragraphAlignments = {}
       /\ cursorVisible = TRUE
       /\ now = 0
       /\ lastBlinkTime = now
       /\ blinkCycleStartTime = now
       /\ clipboard = EmptyClipboard

Fresh(widthPixels) == FreshWith(widthPixels, defaultMaxHistorySize)

Init == (\E w \in Widths : Fresh(w)) /\ scope = Scope(MaxLen, MaxEdits, TRUE)

\* a call of a chain method: it returns the chain as after
ChainCall(after) ==
    /\ ~chain.hung
    /\ chain' = after
    /\ UNCHANGED <<history, historyIndex, session, scope>>
    /\ UNCHANGED <<paragraphAlignments, blink, now, clipboard, maxHistorySize>>

\* a call of an editor method: it returns the editor as after
EditorCall(after) ==
    /\ ~chain.hung
    /\ chain' = after.chain
    /\ history' = after.history
    /\ historyIndex' = after.historyIndex
    /\ UNCHANGED <<scope, paragraphAlignments, blink, now, clipboard, maxHistorySize>>

\* resetCursorBlink()
resetCursorBlink ==
    /\ cursorVisible' = TRUE
    /\ lastBlinkTime' = now
    /\ blinkCycleStartTime' = now

\* a key event given to handleKeyDown: it leaves the editor as after, renders
\* and, last, restarts the blink cycle
KeyCall(after) ==
    /\ ~chain.hung
    /\ chain' = IF after.chain.hung THEN after.chain ELSE render(after.chain, paragraphAlignments)
    /\ history' = after.history
    /\ historyIndex' = after.historyIndex
    /\ resetCursorBlink
    /\ UNCHANGED <<scope, paragraphAlignments, now, clipboard, maxHistorySize>>

Forget == run' = NoRun /\ last' = NoLast

PrintableKey(keys) ==
    \E c \in keys :
        /\ Len(getText(chain)) < scope.maxLen
        /\ ChainCall(printableKeyPressed(chain, c))
        /\ Forget

Backspace == ChainCall(backspacePressed(chain)) /\ Forget

Enter ==
    /\ Len(getText(chain)) < scope.maxLen
    /\ ChainCall(enterPressed(chain))
    /\ Forget

LeftArrow == ChainCall(leftArrowPressed(chain)) /\ Forget

RightArrow == ChainCall(rightArrowPressed(chain)) /\ Forget

UpArrow ==
    /\ ChainCall(upArrowPressed(chain))
    /\ run' = runAfterVertical(chain, hasLineAbove(chain))
    /\ last' = NoLast

DownArrow ==
    /\ ChainCall(downArrowPressed(chain))
    /\ run' = runAfterVertical(chain, hasLineBelow(chain))
    /\ last' = NoLast

Clicked(xs, ys) ==
    \E x \in xs, y \in ys : ChainCall(clicked(chain, x, y)) /\ Forget

MoveCursorToCharPosition ==
    \E p \in 0..Len(getText(chain)) :
        ChainCall(moveCursorToCharPosition(chain, p)) /\ Forget

SetWidth(widths) ==
    \E w \in widths :
        /\ ChainCall(setWidth(chain, w))
        /\ last' = Called("setWidth", getText(chain), null, null)
        /\ run' = NoRun

Recalc ==
    /\ ChainCall(recalc(chain))
    /\ last' = Called("recalc", getText(chain), null, null)
    /\ run' = NoRun

Resize(widths) ==
    \E w \in widths :
        /\ ChainCall(resize(chain, w + padding * 2))
        /\ last' = Called("resize", getText(chain), null, null)
        /\ run' = NoRun

SetFontSize == \E size \in Sizes : ChainCall(setFontSize(chain, size)) /\ Forget

SetSelection ==
    \E i, j \in 1..Len(chain.items), m, n \in 0..MaxLen :
        /\ IsText(chain.items[i]) /\ m <= Len(chain.items[i].text)
        /\ IsText(chain.items[j]) /\ n <= Len(chain.items[j].text)
        /\ ChainCall(setSelection(chain, i, m, j, n))
        /\ Forget

SelectAll == ChainCall(selectAll(chain)) /\ Forget

DeleteSelection ==
    /\ ChainCall(deleteSelection(chain))
    /\ last' = IF hasSelection(chain)
               THEN Called("deleteSelection", getText(chain),
                           chain.selectionStart, chain.selectionEnd)
               ELSE NoLast
    /\ run' = NoRun

SetText(texts) ==
    \E s \in texts :
        /\ ChainCall(setText(chain, s))
        /\ last' = Called("setText", s, null, null)
        /\ run' = NoRun

\* the keys handleKeyDown edits on
EditKeys(keys) == keys \cup {"Enter", "Backspace"}

\* a key that would grow the text is typed only below the bound on the text, and
\* a snapshot is pushed only below the bound on the history
MayPress(key) ==
    /\ Len(history) <= scope.maxEdits
    /\ key = "Backspace" \/ Len(getText(chain)) < scope.maxLen

KeyDown(keys) ==
    \E key \in EditKeys(keys) :
        /\ MayPress(key)
        /\ KeyCall(handleKeyDown(Editor, key))
        /\ Forget
        /\ UNCHANGED session

Clear ==
    /\ Len(history) <= scope.maxEdits
    /\ EditorCall(clear(Editor))
    /\ Forget
    /\ UNCHANGED session

Undo == EditorCall(undo(Editor)) /\ Forget /\ UNCHANGED session

Redo == EditorCall(redo(Editor)) /\ Forget /\ UNCHANGED session

---------------------------------------------------------------------------
(* The chain driven directly: editing, horizontal moves and layout *)

Next ==
    \/ PrintableKey(Chars)
    \/ Backspace
    \/ Enter
    \/ LeftArrow
    \/ RightArrow
    \/ SetWidth(Widths)
    \/ Resize({20})
    \/ Recalc
    \/ SetFontSize

Spec == Init /\ [][Next]_vars

---------------------------------------------------------------------------
(* Properties of the layout pipeline, checked under Spec *)

TextPlaces(items) == {i \in 1..Len(items) : IsText(items[i])}

HasVirtualNewline(items) == \E i \in 1..Len(items) : IsVirtual(items[i])
HasNewline(items) == \E i \in 1..Len(items) : IsNewline(items[i])

\* two TextLinks next to each other in the item sequence with matching fonts
AdjacentSameFont(items, i) ==
    /\ i + 1 <= Len(items)
    /\ IsText(items[i])
    /\ IsText(items[i + 1])
    /\ doPropertiesMatch(items[i].font, items[i + 1].font)

PureWhitespace(text) == \A k \in 1..Len(text) : IsWhitespace(text[k])
PureNonWhitespace(text) == \A k \in 1..Len(text) : ~IsWhitespace(text[k])

\* C2: recalc(), and so every operation that calls it, returns for every item
\* sequence and every positive width, a single character wider than the width
\* included: no call is left running.
WrapTerminates == ~chain.hung

\* C4 as stated: once an operation has returned, no two adjacent TextLinks have
\* identical font properties.
NoAdjacentSameFont ==
    ~chain.hung => \A i \in 1..Len(chain.items) : ~AdjacentSameFont(chain.items, i)

\* C4 as amended: once an operation has returned, two adjacent TextLinks with
\* identical font properties are a whitespace chunk next to a non-whitespace
\* chunk, as chunkTextLinks leaves them.
AdjacentSameFontOnlyChunks ==
    ~chain.hung =>
        \A i \in 1..Len(chain.items) :
            AdjacentSameFont(chain.items, i) =>
                \/ /\ PureWhitespace(chain.items[i].text)
                   /\ PureNonWhitespace(chain.items[i + 1].text)
                \/ /\ PureNonWhitespace(chain.items[i].text)
                   /\ PureWhitespace(chain.items[i + 1].text)

\* a word and the whitespace after it are adjacent chunks, and the word is the
\* merge of what was typed
ChunksAdjacent ==
    /\ ~chain.hung
    /\ \E i \in 1..Len(chain.items) :
          /\ AdjacentSameFont(chain.items, i)
          /\ Len(chain.items[i].text) >= 2

\* C7: recalc(), setWidth(w) and resize(w, h) leave getText() as it was, and with
\* it the number of NewlineLinks and their places in the text.
LayoutKeepsContent ==
    (last.op \in {"recalc", "setWidth", "resize"} /\ ~chain.hung) =>
        /\ getText(chain) = last.text
        /\ Cardinality({i \in 1..Len(chain.items) : IsNewline(chain.items[i])})
             = Cardinality({k \in 1..Len(last.text) : last.text[k] = "\n"})

\* a relayout to a narrower width has wrapped a text that holds a hard break
RelaidOutWithBreaks ==
    /\ last.op \in {"setWidth", "resize"}
    /\ ~chain.hung
    /\ HasVirtualNewline(chain.items)
    /\ HasNewline(chain.items)
    /\ TextPlaces(chain.items) # {}

EveryCharFits(ch) ==
    \A i \in TextPlaces(ch.items) : charWidth(ch.items[i].font) <= ch.widthPixels

\* C9: after layout with width W, if every single character is at most W wide,
\* every TextLink ends at or before W: posX plus its measured width is at most W.
EveryTextLinkFits ==
    (~chain.hung /\ EveryCharFits(chain)) =>
        \A i \in TextPlaces(chain.items) :
            chain.items[i].computed.posX # undefined =>
                chain.items[i].computed.posX + measureText(chain.items[i], <<>>)
                    <= chain.widthPixels

\* a word wider than the chain has been split: two sub-runs of one font with
\* a VirtualNewlineLink between them, each laid out
WordSplit ==
    /\ ~chain.hung
    /\ EveryCharFits(chain)
    /\ \E i \in 1..Len(chain.items) :
          /\ i + 2 <= Len(chain.items)
          /\ IsText(chain.items[i])
          /\ IsVirtual(chain.items[i + 1])
          /\ IsText(chain.items[i + 2])
          /\ PureNonWhitespace(chain.items[i].text \o chain.items[i + 2].text)
          /\ doPropertiesMatch(chain.items[i].font, chain.items[i + 2].font)
          /\ chain.items[i].computed.posX # undefined
          /\ chain.items[i + 2].computed.posX # undefined

---------------------------------------------------------------------------
(* The chain driven as a user moves through a text of several lines *)

InitNav == Fresh(780) /\ scope = Scope(MaxLen, MaxEdits, TRUE)

NextNav ==
    \/ PrintableKey({"a"})
    \/ Enter
    \/ SetFontSize
    \/ LeftArrow
    \/ RightArrow
    \/ UpArrow
    \/ DownArrow
    \/ Clicked(ClickXs, ClickYs)

SpecNav == InitNav /\ [][NextNav]_vars

\* C10: within a run of consecutive upArrowPressed/downArrowPressed calls, the X
\* handed to the placement on a target line is the cursor's X from before the
\* first move of the run.
StickyColumnKept ==
    (run.active /\ run.usedX # undefined) => run.usedX = run.startX

---------------------------------------------------------------------------
(* The editor's undo history: snapshotted edits, then undos, then redos *)

\* a key handled by handleKeyDown: one snapshotted edit
SnapshottedEdit(keys) ==
    \E key \in EditKeys(keys) :
        /\ session.phase = "edit"
        /\ MayPress(key)
        /\ KeyCall(handleKeyDown(Editor, key))
        /\ Forget
        /\ session' = [session EXCEPT !.edits = @ + 1,
                                      !.finalText = getText(chain')]

\* undo(), while not every edit is undone
UndoEdit ==
    /\ session.phase \in {"edit", "undo"}
    /\ session.undos < session.edits
    /\ EditorCall(undo(Editor))
    /\ Forget
    /\ session' = [session EXCEPT !.phase = "undo", !.undos = @ + 1]

\* redo(), once every edit is undone and while not every undo is redone
RedoEdit ==
    /\ session.phase \in {"undo", "redo"}
    /\ session.undos = session.edits
    /\ session.redos < session.edits
    /\ EditorCall(redo(Editor))
    /\ Forget
    /\ session' = [session EXCEPT !.phase = "redo", !.redos = @ + 1]

NextUndo ==
    \/ SnapshottedEdit(Chars)
    \/ UndoEdit
    \/ RedoEdit

SpecUndo == Init /\ [][NextUndo]_vars

\* C1: after N snapshotted edits on an empty editor, N undo() calls leave
\* getText() empty, and N redo() calls after them leave getText() equal to the
\* text the edits had produced.
UndoRedoRoundTrip ==
    /\ (session.phase = "undo" /\ session.undos = session.edits)
          => getText(chain) = <<>>
    /\ (session.phase = "redo" /\ session.redos = session.edits)
          => getText(chain) = session.finalText

---------------------------------------------------------------------------
(* The editor's text commands: setText, selections, deleteSelection *)

Texts == TextsUpTo(Chars \cup {"\n"}, MaxLen)

NextEditor ==
    \/ SetText(Texts)
    \/ SetSelection
    \/ SelectAll
    \/ DeleteSelection
    \/ LeftArrow

SpecEditor == Init /\ [][NextEditor]_vars

\* C3: deleteSelection() with the selection [s, e) leaves getText() equal to
\* old.substring(0, s) + old.substring(e), and no selection.
DeleteSelectionExact ==
    (last.op = "deleteSelection" /\ ~chain.hung) =>
        /\ getText(chain) = substring(last.text, 0, last.s)
                              \o substring(last.text, last.e, Len(last.text))
        /\ ~hasSelection(chain)

\* C6: after setText(s), getText() returns s.
SetTextRoundTrip ==
    (last.op = "setText" /\ ~chain.hung) => getText(chain) = last.text

\* setText has replaced a text by one with a word, whitespace and a hard break,
\* laid out on more lines than it has hard breaks
SetTextWrapped ==
    /\ last.op = "setText"
    /\ ~chain.hung
    /\ \E i, j, k \in 1..Len(last.text) :
          last.text[i] = "a" /\ last.text[j] = " " /\ last.text[k] = "\n"
    /\ HasVirtualNewline(chain.items)

---------------------------------------------------------------------------
(* The editor and its chain driven together: every operation that moves, *)
(* inserts or replaces the cursor                                          *)

InitAll == Fresh(780) /\ scope = Scope(MaxLenAll, MaxEditsAll, FALSE)

NextAll ==
    \/ PrintableKey({"a"})
    \/ Backspace
    \/ Enter
    \/ LeftArrow
    \/ RightArrow
    \/ UpArrow
    \/ DownArrow
    \/ Clicked({100}, {0, 24})
    \/ MoveCursorToCharPosition
    \/ SetWidth({10, 780})
    \/ SetText({<<"a", "\n">>})
    \/ Clear
    \/ SelectAll
    \/ DeleteSelection
    \/ KeyDown({"a"})
    \/ Undo
    \/ Redo

SpecAll == InitAll /\ [][NextAll]_vars

CursorPlaces(items) == {i \in 1..Len(items) : IsCursor(items[i])}

\* C5: after any sequence of chain operations and editor operations on a fresh
\* editor, the item sequence holds exactly one CursorLink.
ExactlyOneCursor ==
    ~chain.hung => Cardinality(CursorPlaces(chain.items)) = 1

\* an undo has restored a snapshot and the cursor has since been moved off the
\* end of a text of two lines
CursorMovedAfterUndo ==
    /\ ~chain.hung
    /\ historyIndex < Len(history) - 1
    /\ HasNewline(chain.items)
    /\ CursorPlaces(chain.items) # {}
    /\ \A i \in CursorPlaces(chain.items) : i < Len(chain.items)

---------------------------------------------------------------------------
(* The cursor moved to a flattened position: moveCursorToCharPosition and  *)
(* the arrows that collapse a selection                                    *)

\* last after a call that moves the cursor: the text and the selection found
Noted(op) ==
    /\ last' = Called(op, getText(chain), chain.selectionStart, chain.selectionEnd)
    /\ run' = NoRun

LeftArrowNoted == ChainCall(leftArrowPressed(chain)) /\ Noted("leftArrowPressed")

RightArrowNoted == ChainCall(rightArrowPressed(chain)) /\ Noted("rightArrowPressed")

MoveCursorNoted ==
    \E p \in 0..Len(getText(chain)) :
        /\ ChainCall(moveCursorToCharPosition(chain, p))
        /\ last' = Called("moveCursorToCharPosition", getText(chain), p, null)
        /\ run' = NoRun

InitCursor == (\E w \in {20, 780} : Fresh(w)) /\ scope = Scope(MaxLen, MaxEdits, TRUE)

NextCursor ==
    \/ PrintableKey({"a"})
    \/ Enter
    \/ SelectAll
    \/ SetSelection
    \/ LeftArrowNoted
    \/ RightArrowNoted
    \/ MoveCursorNoted

SpecCursor == InitCursor /\ [][NextCursor]_vars

\* the selection [s, e) found by the call made last lies within the text found
SelectionFound ==
    /\ last.s # null /\ last.e # null
    /\ 0 <= last.s /\ last.s < last.e /\ last.e <= Len(last.text)

\* C11: with a selection [s, e) active, leftArrowPressed leaves the cursor at
\* flattened position s and rightArrowPressed leaves it at e, and the selection
\* is cleared.
ArrowCollapsesSelection ==
    /\ (last.op = "leftArrowPressed" /\ SelectionFound /\ ~chain.hung)
          => (cursorPos(chain) = last.s /\ ~hasSelection(chain))
    /\ (last.op = "rightArrowPressed" /\ SelectionFound /\ ~chain.hung)
          => (cursorPos(chain) = last.e /\ ~hasSelection(chain))

\* C12: moveCursorToCharPosition(p) with 0 <= p <= getText().length leaves the
\* cursor at flattened position p.
MoveCursorReachesPosition ==
    (last.op = "moveCursorToCharPosition" /\ ~chain.hung)
        => cursorPos(chain) = last.s

---------------------------------------------------------------------------
(* Clicks: where clicked(x, y) leaves the cursor                           *)

\* last after clicked(x, y): the click and the chain it was made on
ClickedNoted(xs, ys) ==
    \E x \in xs, y \in ys :
        /\ ChainCall(clicked(chain, x, y))
        /\ last' = [op |-> "clicked", text |-> getText(chain), s |-> x, e |-> y,
                    before |-> chain]
        /\ run' = NoRun

\* the longest text where clicks are followed: four characters make three lines
\* once the cursor stands inside the first of two full lines
MaxLenClick == 4

InitClick == Fresh(780) /\ scope = Scope(MaxLenClick, MaxEdits, TRUE)

NextClick ==
    \/ PrintableKey({"a"})
    \/ Enter
    \/ LeftArrow
    \/ SetWidth({20, 780})
    \/ ClickedNoted({-10, 5, 8, 100}, {-100, -30, 0, 24, 200})

SpecClick == InitClick /\ [][NextClick]_vars

Located(items) == {i \in 1..Len(items) : items[i].computed.posY # undefined}

\* the click (x, y) on the chain ch falls in no text run, in no text line's
\* vertical span and in no empty line
FallsNowhere(ch, x, y) ==
    /\ \A i \in 1..Len(ch.items) : IsText(ch.items[i]) => ~clickHits(ch.items[i], x, y)
    /\ Len(candidateLines(ch.items, Len(ch.items), y, ch.currentFontProperties, <<>>)) = 0
    /\ \A i \in 1..Len(ch.items) : ~emptyLineHit(ch.items, i, y, ch.currentFontProperties)

\* y is more than a line height above every item of the chain, or below it
AboveEveryLine(ch, y) ==
    /\ Located(ch.items) # {}
    /\ \A i \in Located(ch.items) :
          y < ch.items[i].computed.posY
                - lineHeightOr(ch.items[i].computed.lineHeight, ch.currentFontProperties)
BelowEveryLine(ch, y) ==
    /\ Located(ch.items) # {}
    /\ \A i \in Located(ch.items) :
          y > ch.items[i].computed.posY
                + lineHeightOr(ch.items[i].computed.lineHeight, ch.currentFontProperties)

\* C13: a click that falls in no text run, no text line and no empty line puts
\* the cursor at the document start when y is above the first line and at the
\* document end when y is below the last line.
ClickOutsidePlacesAtEnds ==
    (last.op = "clicked" /\ ~chain.hung /\ FallsNowhere(last.before, last.s, last.e)) =>
        /\ AboveEveryLine(last.before, last.e) => cursorPos(chain) = 0
        /\ BelowEveryLine(last.before, last.e) => cursorPos(chain) = Len(last.text)

\* the text lines of the chain ch whose vertical span contains y
LinesAt(ch, y) ==
    {ch.items[i].computed.posY :
        i \in {k \in 1..Len(ch.items) :
                  /\ IsText(ch.items[k])
                  /\ lineContainsY(ch.items, k, y, ch.currentFontProperties)}}

\* the right edge of the last run of the line at posY
LineEndX(ch, posY) ==
    ch.items[SetMax(TextOnLine(ch.items, posY))].computed.posX
      + measureText(ch.items[SetMax(TextOnLine(ch.items, posY))], <<>>)

\* the flattened position after the last run of the line at posY
LineEndPos(ch, posY) ==
    Len(textOf(SubSeq(ch.items, 1, SetMax(TextOnLine(ch.items, posY)))))

\* the cursor of the chain ch stands at the end of a line: after a text run
\* and before a line break or the end of the items
CursorEndsLine(ch) ==
    /\ cursorIdx(ch.items) > 1
    /\ IsText(ch.items[cursorIdx(ch.items) - 1])
    /\ \/ cursorIdx(ch.items) = Len(ch.items)
       \/ IsNewline(ch.items[cursorIdx(ch.items) + 1])
       \/ IsVirtual(ch.items[cursorIdx(ch.items) + 1])

\* C14: a click whose y lies in a text line's span and whose x is at or beyond
\* the right edge of that line's last run puts the cursor at the end of that
\* line, after its last run and before its trailing line break.
ClickBeyondLinePlacesAtLineEnd ==
    (/\ last.op = "clicked" /\ ~chain.hung
     /\ LinesAt(last.before, last.e) # {}
     /\ \A posY \in LinesAt(last.before, last.e) :
           last.s >= LineEndX(last.before, posY))
    => /\ CursorEndsLine(chain)
       /\ \E posY \in LinesAt(last.before, last.e) :
             /\ cursorPos(chain) = LineEndPos(last.before, posY)
             /\ chain.items[cursorIdx(chain.items)].computed.posY = posY

\* a click beyond the end of a wrapped first line of two
ClickedBeyondWrappedLine ==
    /\ last.op = "clicked" /\ ~chain.hung
    /\ LinesAt(last.before, last.e) # {}
    /\ \A posY \in LinesAt(last.before, last.e) :
          last.s >= LineEndX(last.before, posY)
    /\ cursorIdx(chain.items) < Len(chain.items)
    /\ IsVirtual(chain.items[cursorIdx(chain.items) + 1])
    /\ cursorIdx(last.before.items) # cursorIdx(chain.items)

---------------------------------------------------------------------------
(* The clipboard: copy, cut and paste, and the promises they leave pending  *)

\* the most writeText promises and the most readText promises pending at once,
\* and the most snapshots pushed after the initial one where the clipboard is used
MaxWrites == 1
MaxReads == 2
MaxEditsClip == 2

\* what the clipboard holds when the editor is opened
ClipTexts == {<<"a">>, <<" ", "\n">>}

\* a pass over the items that takes a soft break for a hard one
RECURSIVE selectedFromAllBreaks(_, _, _, _, _)
selectedFromAllBreaks(items, i, pos, selStart, selEnd) ==
    IF i > Len(items) THEN <<>>
    ELSE IF IsText(items[i])
    THEN (IF pos + Len(items[i].text) > selStart /\ pos < selEnd
          THEN substring(items[i].text, Max(0, selStart - pos),
                         Min(Len(items[i].text), selEnd - pos))
          ELSE <<>>)
           \o selectedFromAllBreaks(items, i + 1, pos + Len(items[i].text), selStart, selEnd)
    ELSE IF IsNewline(items[i]) \/ IsVirtual(items[i])
    THEN (IF pos >= selStart /\ pos < selEnd THEN <<"\n">> ELSE <<>>)
           \o selectedFromAllBreaks(items, i + 1, pos + 1, selStart, selEnd)
    ELSE selectedFromAllBreaks(items, i + 1, pos, selStart, selEnd)

\* Chain.getSelectedText's pass over the items
RECURSIVE selectedFrom(_, _, _, _, _)
selectedFrom(items, i, pos, selStart, selEnd) ==
    IF i > Len(items) THEN <<>>
    ELSE IF IsText(items[i])
    THEN (IF pos + Len(items[i].text) > selStart /\ pos < selEnd
          THEN substring(items[i].text, Max(0, selStart - pos),
                         Min(Len(items[i].text), selEnd - pos))
          ELSE <<>>)
           \o selectedFrom(items, i + 1, pos + Len(items[i].text), selStart, selEnd)
    ELSE IF IsNewline(items[i])
    THEN (IF pos >= selStart /\ pos < selEnd THEN <<"\n">> ELSE <<>>)
           \o selectedFrom(items, i + 1, pos + 1, selStart, selEnd)
    ELSE selectedFrom(items, i + 1, pos, selStart, selEnd)

getSelectedText(ch) ==
    IF ~hasSelection(ch) THEN <<>>
    ELSE selectedFrom(ch.items, 1, 0, ch.selectionStart, ch.selectionEnd)

\* copy(): the clipboard once writeText is called; the editor is not touched
copy(ed, cb) ==
    IF ~hasSelection(ed.chain) THEN cb
    ELSE [cb EXCEPT !.writes = Append(@, getSelectedText(ed.chain))]

\* cut(): the editor once cut returns: takeSnapshot, copy, deleteSelection, render
cut(ed) ==
    IF ~hasSelection(ed.chain) THEN ed
    ELSE [takeSnapshot(ed) EXCEPT !.chain = deleteSelection(@)]

\* paste(): readText is called, and nothing else happens before it settles
paste(cb) == [cb EXCEPT !.reads = @ + 1]

\* the .catch of writeText: console.error
writeRejected(ed) == ed

\* a paste that edits although its read was rejected
pasteDespiteRejection(ed) == [takeSnapshot(ed) EXCEPT !.chain = enterPressed(@)]

\* the .catch of readText: console.error
pasteRejected(ed) == ed

\* a paste that inserts the text without a snapshot
pasteUnrecorded(ed, text) ==
    [ed EXCEPT !.chain = insertText(IF hasSelection(@) THEN deleteSelection(@) ELSE @, text)]

\* the .then of readText
pasteResolved(ed, text) ==
    [takeSnapshot(ed) EXCEPT !.chain =
        insertText(IF hasSelection(@) THEN deleteSelection(@) ELSE @, text)]

\* a call of an editor method that uses the clipboard, or the settling of one of
\* its promises: the editor is left as after and the clipboard as cb
ClipboardCall(after, cb) ==
    /\ ~chain.hung
    /\ chain' = after.chain
    /\ history' = after.history
    /\ historyIndex' = after.historyIndex
    /\ clipboard' = cb
    /\ run' = NoRun
    /\ UNCHANGED <<session, scope, paragraphAlignments, blink, now, maxHistorySize>>

\* s without its i-th element
Settled(s, i) == SubSeq(s, 1, i - 1) \o SubSeq(s, i + 1, Len(s))

\* last after a command: the editor it found and whether it called writeText
Commanded(op, wrote) == [op |-> op, before |-> Editor, wrote |-> wrote]

\* the command a settling write belongs to, when no other command ran since:
\* the write is the one issued last and the command called last issued it
IssuedByLast(i) ==
    /\ last.op \in {"copy", "cut"}
    /\ last.wrote
    /\ i = Len(clipboard.writes)

Copy ==
    /\ hasSelection(chain) => Len(clipboard.writes) < MaxWrites
    /\ ClipboardCall(Editor, copy(Editor, clipboard))
    /\ last' = Commanded("copy", hasSelection(chain))

Cut ==
    /\ hasSelection(chain) => Len(clipboard.writes) < MaxWrites
    /\ Len(history) <= scope.maxEdits
    /\ ClipboardCall(cut(Editor), copy(Editor, clipboard))
    /\ last' = Commanded("cut", hasSelection(chain))

Paste ==
    /\ clipboard.reads < MaxReads
    /\ ClipboardCall(Editor, paste(clipboard))
    /\ last' = Commanded("paste", FALSE)

WriteResolves ==
    \E i \in 1..Len(clipboard.writes) :
        /\ ClipboardCall(Editor, [clipboard EXCEPT !.text = clipboard.writes[i], !.writes = Settled(@, i)])
        /\ last' = NoLast

WriteRejects ==
    \E i \in 1..Len(clipboard.writes) :
        /\ ClipboardCall(writeRejected(Editor), [clipboard EXCEPT !.writes = Settled(@, i)])
        /\ last' = [op |-> "writeRejected",
                    by |-> IF IssuedByLast(i) THEN last.op ELSE "",
                    before |-> IF IssuedByLast(i) THEN last.before ELSE Editor]

ReadResolves ==
    /\ clipboard.reads > 0
    /\ Len(history) <= scope.maxEdits
    /\ Len(getText(chain)) + Len(clipboard.text) <= scope.maxLen
    /\ ClipboardCall(pasteResolved(Editor, clipboard.text), [clipboard EXCEPT !.reads = @ - 1])
    /\ last' = [op |-> "readResolved", before |-> Editor, text |-> clipboard.text]

ReadRejects ==
    /\ clipboard.reads > 0
    /\ ClipboardCall(pasteRejected(Editor), [clipboard EXCEPT !.reads = @ - 1])
    /\ last' = [op |-> "readRejected",
                before |-> IF last.op = "paste" THEN last.before ELSE Editor]

InitClipboard ==
    \E t \in ClipTexts :
        /\ maxHistorySize = defaultMaxHistorySize
        /\ chain = takeSnapshot(EditorOf(NewChain(780, defaultFontProperties), <<>>, -1)).chain
        /\ history = takeSnapshot(EditorOf(NewChain(780, defaultFontProperties), <<>>, -1)).history
        /\ historyIndex = 0
        /\ run = NoRun
        /\ last = NoLast
        /\ session = NoSession
        /\ paragraphAlignments = {}
        /\ cursorVisible = TRUE
        /\ now = 0
        /\ lastBlinkTime = now
        /\ blinkCycleStartTime = now
        /\ clipboard = [EmptyClipboard EXCEPT !.text = t]
        /\ scope = Scope(MaxLen, MaxEditsClip, TRUE)

NextClipboard ==
    \/ KeyDown({"a"})
    \/ SelectAll
    \/ LeftArrow
    \/ Clicked({5}, {0})
    \/ Undo
    \/ Copy
    \/ Cut
    \/ Paste
    \/ WriteResolves
    \/ WriteRejects
    \/ ReadResolves
    \/ ReadRejects

SpecClipboard == InitClipboard /\ [][NextClipboard]_vars

\* the document and the history a command may not touch: the items with their
\* texts and fonts, the selection, history and historyIndex
SameEditor(ed, before) ==
    /\ ed.chain.items = before.chain.items
    /\ ed.chain.selectionStart = before.chain.selectionStart
    /\ ed.chain.selectionEnd = before.chain.selectionEnd
    /\ ed.history = before.history
    /\ ed.historyIndex = before.historyIndex

\* C15: when the clipboard write issued by copy() or cut() is rejected, the
\* editor is as it was before the command: same items, text, selection,
\* history and historyIndex.
WriteFailureLeavesEditor ==
    (last.op = "writeRejected" /\ last.by \in {"copy", "cut"})
        => SameEditor(Editor, last.before)

\* C16: when the clipboard read started by paste() is rejected no edit occurs:
\* no snapshot is pushed and items, text, selection, history and historyIndex
\* are as before paste() was called (and as before the rejection, when other
\* commands ran in between).
ReadFailureLeavesEditor ==
    last.op \in {"paste", "readRejected"} => SameEditor(Editor, last.before)

\* a read rejected after a paste() called with text and a selection in place
ReadRejectedOnSelection ==
    /\ last.op = "readRejected"
    /\ hasSelection(last.before.chain)
    /\ clipboard.reads = 0

\* the chain the insertion of a paste starts from
PasteBase(ch) == IF hasSelection(ch) THEN deleteSelection(ch) ELSE ch

\* text with ins put in at the flattened position p
Spliced(text, p, ins) == SubSeq(text, 1, p) \o ins \o SubSeq(text, p + 1, Len(text))

\* C17: when a pending clipboard read completes, the snapshot pushed is the
\* document as it was at completion, and the clipboard text stands
\* contiguously at the place the cursor had then (once the selection, if
\* any, was deleted), whatever ran between paste() and the completion.
PasteActsOnCompletionState ==
    last.op = "readResolved" =>
        /\ historyIndex = last.before.historyIndex + 1
        /\ Len(history) = historyIndex + 1
        /\ history[historyIndex + 1] = snapshotOf(last.before.chain)
        /\ SubSeq(history, 1, historyIndex) = SubSeq(last.before.history, 1, historyIndex)
        /\ getText(chain) = Spliced(getText(PasteBase(last.before.chain)), cursorPos(PasteBase(last.before.chain)), last.text)

\* a paste completed after the document changed under it: paste() was called on
\* an empty document, text was typed and the cursor moved before its end, and
\* a read then completed
PastedIntoChangedDocument ==
    /\ last.op = "readResolved"
    /\ Len(getText(last.before.chain)) > 0
    /\ cursorPos(last.before.chain) < Len(getText(last.before.chain))
    /\ Len(last.text) = 2

---------------------------------------------------------------------------
(* The animation loop: cursor blink frames, with centred paragraphs         *)

\* the latest time on the clock, and the times that pass between two frames
MaxNow == 3000
FrameGaps == {300, 600}

\* the editor's document state and its alignments
Document == [chain |-> chain, history |-> history, historyIndex |-> historyIndex, paragraphAlignments |-> paragraphAlignments]

\* one frame of the animation loop, dt after the clock's last reading
Tick ==
    \E dt \in FrameGaps :
        /\ ~chain.hung
        /\ now + dt <= MaxNow
        /\ now' = now + dt
        /\ cursorVisible' = visibleAfter(cursorVisible, now + dt, lastBlinkTime, blinkCycleStartTime)
        /\ lastBlinkTime' = IF blinks(now + dt, lastBlinkTime, blinkCycleStartTime) THEN now + dt ELSE lastBlinkTime
        /\ chain' = IF needsRender(cursorVisible, now + dt, lastBlinkTime, blinkCycleStartTime) THEN render(chain, paragraphAlignments) ELSE chain
        /\ last' = [op |-> "tick", before |-> IF last.op = "tick" THEN last.before ELSE Document, ticks |-> IF last.op = "tick" THEN last.ticks + 1 ELSE 1]
        /\ run' = NoRun
        /\ UNCHANGED <<history, historyIndex, session, scope, paragraphAlignments, blinkCycleStartTime, clipboard, maxHistorySize>>

ToggleCenterAlign ==
    /\ ~chain.hung
    /\ Len(history) <= scope.maxEdits
    /\ chain' = setAlignment(Editor, paragraphAlignments, toggled(chain, paragraphAlignments)).chain
    /\ history' = takeSnapshot(Editor).history
    /\ historyIndex' = takeSnapshot(Editor).historyIndex
    /\ paragraphAlignments' = alignmentsAfter(chain, paragraphAlignments, toggled(chain, paragraphAlignments))
    /\ Forget
    /\ UNCHANGED <<session, scope, blink, now, clipboard, maxHistorySize>>

InitBlink == Fresh(780) /\ scope = Scope(MaxLenAll, MaxEditsClip, TRUE)

NextBlink ==
    \/ KeyDown({"a"})
    \/ SelectAll
    \/ LeftArrow
    \/ ToggleCenterAlign
    \/ Tick

SpecBlink == InitBlink /\ [][NextBlink]_vars

\* the items without their layout: kind, text and font of each
Content(items) == [i \in 1..Len(items) |-> [kind |-> items[i].kind, text |-> items[i].text, font |-> items[i].font]]

\* C18: over any number of consecutive animation frames the item sequence, the
\* runs' texts and fonts, the selection, the paragraph alignments and the
\* history stay as they were before the first of them.
TicksKeepDocument ==
    last.op = "tick" =>
        /\ Content(chain.items) = Content(last.before.chain.items)
        /\ chain.selectionStart = last.before.chain.selectionStart
        /\ chain.selectionEnd = last.before.chain.selectionEnd
        /\ chain.currentFontProperties = last.before.chain.currentFontProperties
        /\ paragraphAlignments = last.before.paragraphAlignments
        /\ history = last.before.history
        /\ historyIndex = last.before.historyIndex

\* several frames have passed over a centred, selected text, the cursor has
\* blinked off and a frame has rendered
BlinkedOffOverCentredText ==
    /\ last.op = "tick"
    /\ last.ticks >= 3
    /\ ~cursorVisible
    /\ paragraphAlignments # {}
    /\ hasSelection(chain)
    /\ chain.items # last.before.chain.items

---------------------------------------------------------------------------
(* The commands that change the document, and the history they leave        *)

\* a command of the editor: it leaves the editor as after; last keeps the
\* command and the editor it found
Command(op, after) ==
    /\ EditorCall(after)
    /\ last' = [op |-> op, before |-> Editor, wrote |-> FALSE]
    /\ run' = NoRun
    /\ UNCHANGED session

KeyCommand ==
    \E key \in EditKeys({"a"}) :
        /\ MayPress(key)
        /\ KeyCall(handleKeyDown(Editor, key))
        /\ last' = [op |-> "handleKeyDown", before |-> Editor, wrote |-> FALSE]
        /\ run' = NoRun
        /\ UNCHANGED session

ClearCommand == Len(history) <= scope.maxEdits /\ Command("clear", clear(Editor))

SetTextCommand ==
    \E text \in {<<>>, <<"a", "\n">>} :
        /\ Len(text) <= scope.maxLen
        /\ Command("setText", [Editor EXCEPT !.chain = setText(@, text)])

SetFontSizeCommand ==
    \E size \in Sizes :
        /\ size # chain.currentFontProperties.size
        /\ Command("setFontSize", [Editor EXCEPT !.chain = setFontSizeOfSelection(@, size)])

UndoCommand == canUndo(Editor) /\ Command("undo", undo(Editor))

RedoCommand == canRedo(Editor) /\ Command("redo", redo(Editor))

InitHistory == Fresh(780) /\ scope = Scope(MaxLenAll, MaxEdits, TRUE)

NextHistory ==
    \/ KeyCommand
    \/ ClearCommand
    \/ UndoCommand
    \/ RedoCommand
    \/ SelectAll
    \/ LeftArrow
    \/ Cut
    \/ WriteResolves
    \/ Paste
    \/ ReadResolves

SpecHistory == InitHistory /\ [][NextHistory]_vars

InitCommands == Fresh(780) /\ scope = Scope(MaxLenAll, MaxEditsClip, TRUE)

NextCommands ==
    \/ KeyCommand
    \/ ClearCommand
    \/ SetTextCommand
    \/ SetFontSizeCommand
    \/ SelectAll
    \/ Cut
    \/ WriteResolves
    \/ Paste
    \/ ReadResolves

SpecCommands == InitCommands /\ [][NextCommands]_vars

\* the font of every character of the document, in order
RECURSIVE CharFonts(_)
CharFonts(items) ==
    IF Len(items) = 0 THEN <<>>
    ELSE (IF IsText(items[1]) THEN [k \in 1..Len(items[1].text) |-> items[1].font] ELSE <<>>)
           \o CharFonts(Tail(items))

\* the commands that edit: keys, cut, a completed paste, clear, setText and a
\* font size applied to a selection
Destructive == {"handleKeyDown", "cut", "readResolved", "clear", "setText", "setFontSize"}

\* the command called last has changed the text or the font of a run
Changed ==
    /\ last.op \in Destructive
    /\ \/ getText(chain) # getText(last.before.chain)
       \/ CharFonts(chain.items) # CharFonts(last.before.chain.items)

\* C19: a command that changes the document's text or the font of a run has
\* pushed a snapshot of the document as it found it: history holds that
\* snapshot at historyIndex, one above the historyIndex the command found.
DestructiveCommandsSnapshot ==
    Changed =>
        /\ historyIndex = last.before.historyIndex + 1
        /\ history[historyIndex + 1] = snapshotOf(last.before.chain)

\* the command called last called takeSnapshot()
Snapshotted ==
    \/ last.op \in {"handleKeyDown", "clear", "readResolved"}
    \/ last.op = "cut" /\ last.wrote

\* C20: takeSnapshot() called with historyIndex below history.length - 1 drops
\* every snapshot after historyIndex and then pushes the new one; afterwards
\* canRedo() is false and redo() changes nothing.
NewEditDropsRedo ==
    (Snapshotted /\ canRedo(last.before)) =>
        /\ history = Append(SubSeq(last.before.history, 1, last.before.historyIndex + 1), snapshotOf(last.before.chain))
        /\ historyIndex = Len(history) - 1
        /\ ~canRedo(Editor)
        /\ redo(Editor) = Editor

\* a key typed after two undos, with two snapshots ahead of historyIndex
TypedAfterTwoUndos ==
    /\ last.op = "handleKeyDown"
    /\ last.before.historyIndex + 2 < Len(last.before.history)
    /\ getText(chain) # getText(last.before.chain)

---------------------------------------------------------------------------
(* The history as a bounded list: takeSnapshot, undo and redo called on an  *)
(* editor whose maxHistorySize is small                                     *)

\* the values maxHistorySize is given
HistoryLimits == {1, 2, 3}

TakeSnapshotCall == ~chain.hung /\ Command("takeSnapshot", takeSnapshot(Editor))

UndoCall == ~chain.hung /\ Command("undo", undo(Editor))

RedoCall == ~chain.hung /\ Command("redo", redo(Editor))

InitLimit == \E n \in HistoryLimits : FreshWith(780, n) /\ scope = Scope(MaxLenAll, MaxEdits, TRUE)

NextLimit ==
    \/ PrintableKey({"a"})
    \/ Enter
    \/ Backspace
    \/ TakeSnapshotCall
    \/ UndoCall
    \/ RedoCall

SpecLimit == InitLimit /\ [][NextLimit]_vars

\* C21: after any takeSnapshot, undo and redo calls history.length is between
\* 1 and maxHistorySize and historyIndex between 0 and history.length - 1;
\* undo() at historyIndex 0 and redo() at the last index change neither the
\* index nor the document.
HistoryWithinLimit ==
    /\ Len(history) >= 1
    /\ Len(history) <= maxHistorySize
    /\ historyIndex >= 0
    /\ historyIndex <= Len(history) - 1
    /\ (last.op = "undo" /\ last.before.historyIndex = 0) => Editor = last.before
    /\ (last.op = "redo" /\ last.before.historyIndex = Len(last.before.history) - 1) => Editor = last.before

\* undo() called at historyIndex 0 on a full history of three snapshots whose
\* document is no longer the one of the first snapshot
UndoneAtFirstSnapshot ==
    /\ last.op = "undo"
    /\ last.before.historyIndex = 0
    /\ Len(history) = 3
    /\ maxHistorySize = 3
    /\ snapshotOf(chain) # history[1]

\* the history a takeSnapshot() call pushes onto: the snapshots up to historyIndex
KeptHistory(ed) == SubSeq(ed.history, 1, ed.historyIndex + 1)

\* the takeSnapshot() called last pushed onto a full history
Overflowed == last.op = "takeSnapshot" /\ Len(KeptHistory(last.before)) + 1 > maxHistorySize

\* C22: a push that makes history.length exceed maxHistorySize removes the
\* oldest snapshot and no other and leaves historyIndex as it was, which is
\* then the last index and holds the snapshot just pushed.
OverflowEvictsOldest ==
    Overflowed =>
        /\ history = Tail(Append(KeptHistory(last.before), snapshotOf(last.before.chain)))
        /\ historyIndex = last.before.historyIndex
        /\ historyIndex = Len(history) - 1
        /\ history[historyIndex + 1] = snapshotOf(last.before.chain)

\* a snapshot pushed onto a full history of three different snapshots
PushedOntoFullHistory ==
    /\ Overflowed
    /\ maxHistorySize = 3
    /\ last.before.history[1] # last.before.history[2]
    /\ history[1] = last.before.history[2]
    /\ history[3] # history[2]

---------------------------------------------------------------------------
(* The scenario "Hi", Enter, "Bye", undo twice: the text typed through the  *)
(* chain or through handleKeyDown, with takeSnapshot() called at any point  *)
(* of the typing, and undo() called once the whole text stands              *)

Script == <<"H", "i", "\n", "B", "y", "e">>

\* the most snapshots pushed after the initial one while the script is typed
MaxEditsScript == 6

\* the key that types the next character of the script
NextOfScript ==
    IF Script[Len(getText(chain)) + 1] = "\n" THEN "Enter"
    ELSE Script[Len(getText(chain)) + 1]

\* the document is a proper prefix of the script with the cursor at its end, and
\* nothing is undone yet
MayType ==
    /\ ~chain.hung
    /\ session.undos = 0
    /\ Len(getText(chain)) < Len(Script)
    /\ getText(chain) = SubSeq(Script, 1, Len(getText(chain)))
    /\ cursorPos(chain) = Len(getText(chain))

\* chain.printableKeyPressed(c) or chain.enterPressed(), as the tests type
TypeScripted ==
    /\ MayType
    /\ session.phase \in {"edit", "chain"}
    /\ EditorCall([Editor EXCEPT !.chain = keyTyped(@, NextOfScript)])
    /\ Forget
    /\ session' = [NoSession EXCEPT !.phase = "chain", !.finalText = getText(chain')]

\* the same key given to handleKeyDown
KeyScripted ==
    /\ MayType
    /\ Len(history) <= scope.maxEdits
    /\ session.phase \in {"edit", "keys"}
    /\ KeyCall(handleKeyDown(Editor, NextOfScript))
    /\ Forget
    /\ session' = [NoSession EXCEPT !.phase = "keys", !.finalText = getText(chain')]

SnapshotScripted ==
    /\ Len(history) <= scope.maxEdits
    /\ session.undos = 0
    /\ EditorCall(takeSnapshot(Editor))
    /\ Forget
    /\ UNCHANGED session

UndoScripted ==
    /\ session.undos < 2
    /\ session.finalText = Script
    /\ EditorCall(undo(Editor))
    /\ Forget
    /\ session' = [session EXCEPT !.undos = @ + 1]

InitScript == Fresh(780) /\ scope = Scope(MaxLen, MaxEditsScript, TRUE)

NextScript ==
    \/ TypeScripted
    \/ KeyScripted
    \/ SnapshotScripted
    \/ UndoScripted

SpecScript == InitScript /\ [][NextScript]_vars

\* the flattened text a snapshot holds
RECURSIVE SnapshotText(_)
SnapshotText(entries) ==
    IF Len(entries) = 0 THEN <<>>
    ELSE (IF entries[1].type = "TextLink" THEN entries[1].text
          ELSE IF entries[1].type = "NewlineLink" THEN <<"\n">> ELSE <<>>)
           \o SnapshotText(Tail(entries))

HistoryTexts == [i \in 1..Len(history) |-> SnapshotText(history[i].items)]

\* undo() has been called twice since the whole script stood in the document
UndoneTwice == session.finalText = Script /\ session.undos = 2

---------------------------------------------------------------------------
(* Formatting the selection and the history: the toggles, setTextColor,     *)
(* clearFormatting, takeSnapshot, undo and redo                             *)

\* the most characters and the most snapshots of the formatting runs
MaxLenFormat == 2
MaxEditsFormat == 1

\* session, in these runs: documents[k] is the chain as it was when
\* history[k] was taken
Taken(documents) == [documents |-> documents]

documentsAfter(snapshots) ==
    IF snapshots
    THEN Append(SubSeq(session.documents, 1, historyIndex + 1), chain)
    ELSE session.documents

\* a formatting or history command: it leaves the editor as after, has drawn
\* it when drawn, and has called takeSnapshot() first when snapshots
FormatCall(op, after, drawn, snapshots) ==
    /\ ~chain.hung
    /\ snapshots => Len(history) <= scope.maxEdits
    /\ chain' = IF drawn /\ ~after.chain.hung THEN render(after.chain, paragraphAlignments) ELSE after.chain
    /\ history' = after.history
    /\ historyIndex' = after.historyIndex
    /\ last' = [op |-> op, before |-> Editor, wrote |-> FALSE]
    /\ run' = NoRun
    /\ session' = Taken(documentsAfter(snapshots))
    /\ UNCHANGED <<scope, paragraphAlignments, blink, now, clipboard, maxHistorySize>>

ToggleBold == ~chain.hung /\ FormatCall("toggleBold", toggleBold(Editor), hasSelection(chain), hasSelection(chain))

ToggleUnderline == ~chain.hung /\ FormatCall("toggleUnderline", toggleUnderline(Editor), hasSelection(chain), hasSelection(chain))

ToggleSuperscript == ~chain.hung /\ FormatCall("toggleSuperscript", toggleSuperscript(Editor), hasSelection(chain), hasSelection(chain))

ToggleSubscript == ~chain.hung /\ FormatCall("toggleSubscript", toggleSubscript(Editor), hasSelection(chain), hasSelection(chain))

SetTextColor ==
    \E color \in Colors :
        /\ ~chain.hung
        /\ FormatCall("setTextColor", setTextColor(Editor, color), hasSelection(chain), hasSelection(chain))

ClearFormatting == ~chain.hung /\ FormatCall("clearFormatting", clearFormatting(Editor), hasSelection(chain), hasSelection(chain))

TakeSnapshotFormat == ~chain.hung /\ FormatCall("takeSnapshot", takeSnapshot(Editor), FALSE, TRUE)

UndoFormat == canUndo(Editor) /\ FormatCall("undo", undo(Editor), TRUE, FALSE)

RedoFormat == canRedo(Editor) /\ FormatCall("redo", redo(Editor), TRUE, FALSE)

InitFormat ==
    /\ maxHistorySize = defaultMaxHistorySize
    /\ chain = takeSnapshot(EditorOf(NewChain(780, defaultFontProperties), <<>>, -1)).chain
    /\ history = takeSnapshot(EditorOf(NewChain(780, defaultFontProperties), <<>>, -1)).history
    /\ historyIndex = 0
    /\ run = NoRun
    /\ last = NoLast
    /\ session = Taken(<<chain>>)
    /\ paragraphAlignments = {}
    /\ cursorVisible = TRUE
    /\ now = 0
    /\ lastBlinkTime = now
    /\ blinkCycleStartTime = now
    /\ clipboard = EmptyClipboard
    /\ scope = Scope(MaxLenFormat, MaxEditsFormat, TRUE)

NextFormat ==
    \/ PrintableKey({"a"})
    \/ SelectAll
    \/ ToggleUnderline
    \/ SetTextColor
    \/ TakeSnapshotFormat
    \/ UndoFormat
    \/ RedoFormat

SpecFormat == InitFormat /\ [][NextFormat]_vars

NextExclusive ==
    \/ PrintableKey({"a"})
    \/ SelectAll
    \/ ToggleBold
    \/ ToggleSuperscript
    \/ ToggleSubscript
    \/ ClearFormatting
    \/ UndoFormat
    \/ RedoFormat

SpecExclusive == InitFormat /\ [][NextExclusive]_vars

\* the snapshot restored by the undo() or redo() called last, and the chain it
\* was taken of
Restored == last.op \in {"undo", "redo"} /\ historyIndex # last.before.historyIndex

TakenOf == session.documents[historyIndex + 1]

\* C24: a snapshot is a faithful value copy: undo() and redo() bring back, for
\* every character, the text and the complete font descriptor of the run it was
\* in when the snapshot was taken, and the selection bounds; and a snapshot in
\* history stays the snapshot of the document it was taken of.
SnapshotsAreFaithful ==
    /\ \A k \in 1..Len(history) : history[k] = snapshotOf(session.documents[k])
    /\ Restored =>
        /\ getText(chain) = getText(TakenOf)
        /\ CharFonts(chain.items) = CharFonts(TakenOf.items)
        /\ chain.selectionStart = TakenOf.selectionStart
        /\ chain.selectionEnd = TakenOf.selectionEnd

\* the same with the font descriptor cut down to size, family, weight and style
BasicFont(f) == [size |-> f.size, family |-> f.family, weight |-> f.weight, style |-> f.style]

BasicFonts(fonts) == [k \in 1..Len(fonts) |-> BasicFont(fonts[k])]

SnapshotsKeepBasicFont ==
    /\ \A k \in 1..Len(history) : history[k] = snapshotOf(session.documents[k])
    /\ Restored =>
        /\ getText(chain) = getText(TakenOf)
        /\ BasicFonts(CharFonts(chain.items)) = BasicFonts(CharFonts(TakenOf.items))
        /\ chain.selectionStart = TakenOf.selectionStart
        /\ chain.selectionEnd = TakenOf.selectionEnd


\* superscript and subscript are not both set in the font f
Exclusive(f) == ~(f.superscript /\ f.subscript)

\* C30: superscript and subscript exclude each other: whatever toggles, other
\* formatting commands, clearFormatting, undo and redo have been called,
\* neither the chain's current font nor the font of a TextLink has both.
SuperscriptExcludesSubscript ==
    /\ Exclusive(chain.currentFontProperties)
    /\ \A i \in 1..Len(chain.items) : IsText(chain.items[i]) => Exclusive(chain.items[i].font)

\* toggleSuperscript() called on a selection that held a subscript run has
\* made that run superscript
SuperscriptedSubscriptRun ==
    /\ last.op = "toggleSuperscript"
    /\ hasSelection(last.before.chain)
    /\ \E i \in 1..Len(last.before.chain.items) :
         /\ overlapsSelection(last.before.chain, i)
         /\ last.before.chain.items[i].font.subscript
    /\ \E i \in 1..Len(chain.items) : IsText(chain.items[i]) /\ chain.items[i].font.superscript


---------------------------------------------------------------------------
(* The keys of the chain, each compared with the chain it found: typing,    *)
(* Enter, Backspace and the four arrows, on one line and on wrapped lines   *)

\* the most characters of a document of these runs
MaxLenKeys == 3

\* last after a call of a chain method: the method, the chain it found and the
\* character it was given
Keyed(op, char) ==
    /\ last' = [op |-> op, before |-> chain, char |-> char]
    /\ run' = NoRun

PrintableKeyPressed(keys) ==
    \E c \in keys :
        /\ Len(getText(chain)) < scope.maxLen
        /\ ChainCall(printableKeyPressed(chain, c))
        /\ Keyed("printableKeyPressed", c)

EnterPressed ==
    /\ Len(getText(chain)) < scope.maxLen
    /\ ChainCall(enterPressed(chain))
    /\ Keyed("enterPressed", "\n")

BackspacePressed == ChainCall(backspacePressed(chain)) /\ Keyed("backspacePressed", "")

LeftArrowPressed == ChainCall(leftArrowPressed(chain)) /\ Keyed("leftArrowPressed", "")

RightArrowPressed == ChainCall(rightArrowPressed(chain)) /\ Keyed("rightArrowPressed", "")

UpArrowPressed == ChainCall(upArrowPressed(chain)) /\ Keyed("upArrowPressed", "")

DownArrowPressed == ChainCall(downArrowPressed(chain)) /\ Keyed("downArrowPressed", "")

InitKeys == (\E w \in {20, 780} : Fresh(w)) /\ scope = Scope(MaxLenKeys, MaxEdits, TRUE)

\* the keys that move the cursor along the text
NextHorizontal ==
    \/ PrintableKeyPressed(Chars)
    \/ EnterPressed
    \/ LeftArrowPressed
    \/ RightArrowPressed
    \/ SetFontSize

SpecHorizontal == InitKeys /\ [][NextHorizontal]_vars

\* the keys that move the cursor from line to line
NextVertical ==
    \/ PrintableKeyPressed(Chars)
    \/ EnterPressed
    \/ LeftArrowPressed
    \/ UpArrowPressed
    \/ DownArrowPressed
    \/ SetFontSize

SpecVertical == InitKeys /\ [][NextVertical]_vars

\* the characters typed where the text is compared character by character
EditChars == {"a", "b", " "}

\* the keys that change the text
NextEdits ==
    \/ PrintableKeyPressed(EditChars)
    \/ EnterPressed
    \/ BackspacePressed
    \/ LeftArrowPressed
    \/ SetFontSize

SpecEdits == InitKeys /\ [][NextEdits]_vars

\* the method called last was op, it found no selection and it has returned
KeyedWithoutSelection(op) == last.op = op /\ ~hasSelection(last.before) /\ ~chain.hung

\* the cursor of ch can be moved left and right of where it is
Movable(ch) == ~ch.hung /\ ~hasSelection(ch)

\* C25: with no selection, leftArrowPressed moves the cursor from flattened
\* position p > 0 to p - 1 and rightArrowPressed from p < text length to p + 1,
\* whatever run boundary, soft break or hard break is next to the cursor; left
\* then right, and right then left, bring the cursor back to p.
ArrowsMoveOnePosition ==
    /\ (KeyedWithoutSelection("leftArrowPressed") /\ cursorPos(last.before) > 0)
          => cursorPos(chain) = cursorPos(last.before) - 1
    /\ (KeyedWithoutSelection("rightArrowPressed") /\ cursorPos(last.before) < Len(getText(last.before)))
          => cursorPos(chain) = cursorPos(last.before) + 1
    /\ (Movable(chain) /\ cursorPos(chain) > 0 /\ Movable(leftArrowPressed(chain)))
          => cursorPos(rightArrowPressed(leftArrowPressed(chain))) = cursorPos(chain)
    /\ (Movable(chain) /\ cursorPos(chain) < Len(getText(chain)) /\ Movable(rightArrowPressed(chain)))
          => cursorPos(leftArrowPressed(rightArrowPressed(chain))) = cursorPos(chain)

\* a line break stands next to the cursor of ch, on the side given
BreakBefore(ch) == cursorIdx(ch.items) > 1 /\ ~IsText(ch.items[cursorIdx(ch.items) - 1])

BreakAfter(ch) == cursorIdx(ch.items) < Len(ch.items) /\ ~IsText(ch.items[cursorIdx(ch.items) + 1])

\* rightArrowPressed has moved the cursor over a soft break
MovedRightOverSoftBreak ==
    /\ KeyedWithoutSelection("rightArrowPressed")
    /\ BreakAfter(last.before)
    /\ IsVirtual(last.before.items[cursorIdx(last.before.items) + 1])
    /\ cursorPos(chain) = cursorPos(last.before) + 1


\* the baseline of the cursor of ch, and the baselines of all its items
cursorY(ch) == ch.items[cursorIdx(ch.items)].computed.posY

Baselines(ch) == {ch.items[i].computed.posY : i \in 1..Len(ch.items)} \ {undefined}

\* the cursor of ch is drawn on the first visual line, on the last one
OnFirstLine(ch) == cursorY(ch) # undefined /\ \A y \in Baselines(ch) : cursorY(ch) <= y

OnLastLine(ch) == cursorY(ch) # undefined /\ \A y \in Baselines(ch) : cursorY(ch) >= y

\* C26: upArrowPressed with the cursor on the first visual line puts the cursor
\* at the document start, flattened position 0, and downArrowPressed with the
\* cursor on the last visual line puts it at the document end, the text length.
VerticalAtEdgeGoesToEnd ==
    /\ (last.op = "upArrowPressed" /\ OnFirstLine(last.before) /\ ~chain.hung)
          => cursorPos(chain) = 0
    /\ (last.op = "downArrowPressed" /\ OnLastLine(last.before) /\ ~chain.hung)
          => cursorPos(chain) = Len(getText(chain))

\* the same, with the first line taken as the text before the first line break
\* and the last line as the text after the last one
BeforeFirstBreak(ch) == \A i \in 1..(cursorIdx(ch.items) - 1) : IsText(ch.items[i])

AfterLastBreak(ch) == \A i \in (cursorIdx(ch.items) + 1)..Len(ch.items) : IsText(ch.items[i])

VerticalAtEdgeByBreaks ==
    /\ (last.op = "upArrowPressed" /\ BeforeFirstBreak(last.before) /\ ~chain.hung)
          => cursorPos(chain) = 0
    /\ (last.op = "downArrowPressed" /\ AfterLastBreak(last.before) /\ ~chain.hung)
          => cursorPos(chain) = Len(getText(chain))

\* upArrowPressed has taken the cursor from inside the first of several lines
\* to the document start
UpFromInsideFirstLine ==
    /\ last.op = "upArrowPressed"
    /\ OnFirstLine(last.before)
    /\ ~OnLastLine(last.before)
    /\ cursorPos(last.before) > 0
    /\ cursorPos(chain) = 0


\* old.substring(0, at) + old.substring(at + 1): old without the character at
Without(old, at) == substring(old, 0, at) \o substring(old, at + 1, Len(old))

\* C27: backspacePressed with the cursor at flattened position p > 0 deletes
\* the one character at position p - 1, the last character of the run before
\* the cursor or the hard break before it, and leaves the cursor at p - 1; at
\* position 0 it changes neither the text nor the cursor position.
BackspaceDeletesOneBefore ==
    (last.op = "backspacePressed" /\ ~chain.hung) =>
        IF cursorPos(last.before) > 0
        THEN /\ getText(chain) = Without(getText(last.before), cursorPos(last.before) - 1)
             /\ cursorPos(chain) = cursorPos(last.before) - 1
        ELSE /\ getText(chain) = getText(last.before)
             /\ cursorPos(chain) = 0

\* backspacePressed has deleted the character before a soft break, with text
\* on both sides of the cursor
BackspacedInsideWrappedText ==
    /\ last.op = "backspacePressed"
    /\ ~chain.hung
    /\ 0 < cursorPos(last.before)
    /\ cursorPos(last.before) < Len(getText(last.before))
    /\ \E i \in 1..Len(last.before.items) : IsVirtual(last.before.items[i])
    /\ Len(getText(chain)) = Len(getText(last.before)) - 1


\* old.substring(0, at) + c + old.substring(at)
With(old, at, c) == substring(old, 0, at) \o <<c>> \o substring(old, at, Len(old))

\* C28: printableKeyPressed(c) with the cursor at flattened position p inserts
\* c at p: getText() is then old.substring(0, p) + c + old.substring(p) and the
\* cursor is at p + 1, whether a run of the current font, a run of another
\* font, a hard break, a soft break or nothing stands before the cursor.
PrintableInsertsAtCursor ==
    (last.op = "printableKeyPressed" /\ ~chain.hung) =>
        /\ getText(chain) = With(getText(last.before), cursorPos(last.before), last.char)
        /\ cursorPos(chain) = cursorPos(last.before) + 1

\* a character has been typed behind a run of another font and in front of
\* more text
TypedBehindOtherFont ==
    /\ last.op = "printableKeyPressed"
    /\ ~chain.hung
    /\ BreakBefore(last.before) = FALSE
    /\ cursorIdx(last.before.items) > 1
    /\ ~doPropertiesMatch(last.before.items[cursorIdx(last.before.items) - 1].font, last.before.currentFontProperties)
    /\ cursorPos(last.before) < Len(getText(last.before))
    /\ Len(getText(chain)) = Len(getText(last.before)) + 1


---------------------------------------------------------------------------
(* The selected text: getSelectedText over runs, hard breaks, soft breaks   *)
(* and the cursor, for the selections setSelection and selectAll make and   *)
(* the ones left standing by later keys                                     *)

InitSelect == Fresh(20) /\ scope = Scope(MaxLenKeys, MaxEdits, TRUE)

NextSelect ==
    \/ PrintableKey(EditChars)
    \/ Enter
    \/ Backspace
    \/ LeftArrow
    \/ SetFontSize
    \/ SetSelection
    \/ SelectAll

SpecSelect == InitSelect /\ [][NextSelect]_vars

\* C29: with a selection [s, e) active, getSelectedText() is
\* getText().substring(s, e): one "\n" for each hard break in the range, nothing
\* for a soft break or the cursor; with no selection it is the empty string.
SelectedTextIsSubstring ==
    ~chain.hung =>
        getSelectedText(chain) =
            IF hasSelection(chain)
            THEN substring(getText(chain), chain.selectionStart, chain.selectionEnd)
            ELSE <<>>

\* a selection that holds a hard break and a soft break, with the cursor inside
SelectedOverBreaks ==
    /\ ~chain.hung
    /\ hasSelection(chain)
    /\ \E i, j, k \in 1..Len(chain.items) :
         /\ IsNewline(chain.items[i]) /\ IsVirtual(chain.items[j]) /\ IsCursor(chain.items[k])
         /\ chain.selectionStart <= offsetOf(chain.items, i) /\ offsetOf(chain.items, i) < chain.selectionEnd
         /\ chain.selectionStart < offsetOf(chain.items, j) /\ offsetOf(chain.items, j) < chain.selectionEnd
         /\ chain.selectionStart < offsetOf(chain.items, k) /\ offsetOf(chain.items, k) < chain.selectionEnd


---------------------------------------------------------------------------
(* The font commands of the editor, with and without a selection: a few     *)
(* commands among the typing of a short text                                *)

\* the most font commands of one run
MaxCommands == 2

Families == {"Courier"}

\* session, in these runs: the number of font commands called
Counted(n) == [commands |-> n]

\* a font command: it leaves the editor as after and has drawn it when drawn
FontCall(op, after, drawn) ==
    /\ ~chain.hung
    /\ session.commands < MaxCommands
    /\ chain' = IF drawn /\ ~after.chain.hung THEN render(after.chain, paragraphAlignments) ELSE after.chain
    /\ history' = after.history
    /\ historyIndex' = after.historyIndex
    /\ last' = [op |-> op, before |-> Editor, wrote |-> FALSE]
    /\ run' = NoRun
    /\ session' = Counted(session.commands + 1)
    /\ UNCHANGED <<scope, paragraphAlignments, blink, now, clipboard, maxHistorySize>>

SetFontSizeCall ==
    \E size \in Sizes :
        /\ ~chain.hung
        /\ FontCall("setFontSize", [Editor EXCEPT !.chain = setFontSizeOfSelection(@, size)], TRUE)

SetFontFamilyCall ==
    \E family \in Families :
        /\ ~chain.hung
        /\ FontCall("setFontFamily", [Editor EXCEPT !.chain = setFontFamilyOfSelection(@, family)], TRUE)

ToggleBoldCall == ~chain.hung /\ FontCall("toggleBold", toggleBold(Editor), hasSelection(chain))

ToggleItalicCall == ~chain.hung /\ FontCall("toggleItalic", toggleItalic(Editor), hasSelection(chain))

ToggleUnderlineCall == ~chain.hung /\ FontCall("toggleUnderline", toggleUnderline(Editor), hasSelection(chain))

ToggleStrikethroughCall == ~chain.hung /\ FontCall("toggleStrikethrough", toggleStrikethrough(Editor), hasSelection(chain))

ToggleSuperscriptCall == ~chain.hung /\ FontCall("toggleSuperscript", toggleSuperscript(Editor), hasSelection(chain))

ToggleSubscriptCall == ~chain.hung /\ FontCall("toggleSubscript", toggleSubscript(Editor), hasSelection(chain))

SetTextColorCall ==
    \E color \in Colors :
        /\ ~chain.hung
        /\ FontCall("setTextColor", setTextColor(Editor, color), hasSelection(chain))

InitFont ==
    /\ maxHistorySize = defaultMaxHistorySize
    /\ chain = takeSnapshot(EditorOf(NewChain(780, defaultFontProperties), <<>>, -1)).chain
    /\ history = takeSnapshot(EditorOf(NewChain(780, defaultFontProperties), <<>>, -1)).history
    /\ historyIndex = 0
    /\ run = NoRun
    /\ last = NoLast
    /\ session = Counted(0)
    /\ paragraphAlignments = {}
    /\ cursorVisible = TRUE
    /\ now = 0
    /\ lastBlinkTime = now
    /\ blinkCycleStartTime = now
    /\ clipboard = EmptyClipboard
    /\ scope = Scope(MaxLenFormat, MaxEditsFormat, TRUE)

NextFont ==
    \/ PrintableKey({"a"})
    \/ SelectAll
    \/ SetFontSizeCall
    \/ SetFontFamilyCall
    \/ ToggleBoldCall
    \/ ToggleItalicCall
    \/ ToggleUnderlineCall
    \/ ToggleStrikethroughCall
    \/ ToggleSuperscriptCall
    \/ ToggleSubscriptCall
    \/ SetTextColorCall

SpecFont == InitFont /\ [][NextFont]_vars

FontCommands == {"setFontSize", "setFontFamily", "toggleBold", "toggleItalic", "toggleUnderline", "toggleStrikethrough", "toggleSuperscript", "toggleSubscript", "setTextColor"}

\* C31: with no selection active, setFontSize, setFontFamily, the six toggles
\* and setTextColor change the current font only: the items with their texts
\* and fonts, the selection bounds and the history are as the command found
\* them.
CurrentFontOnly ==
    (last.op \in FontCommands /\ ~hasSelection(last.before.chain)) =>
        /\ Content(chain.items) = Content(last.before.chain.items)
        /\ chain.selectionStart = last.before.chain.selectionStart
        /\ chain.selectionEnd = last.before.chain.selectionEnd
        /\ history = last.before.history
        /\ historyIndex = last.before.historyIndex

\* a font command called with no selection on a text has changed the current
\* font, which now differs from the font of the run before the cursor
CurrentFontChangedBehindText ==
    /\ last.op \in FontCommands
    /\ ~hasSelection(last.before.chain)
    /\ Len(getText(chain)) > 0
    /\ chain.currentFontProperties # last.before.chain.currentFontProperties
    /\ \E i \in 1..Len(chain.items) :
         IsText(chain.items[i]) /\ chain.items[i].font # chain.currentFontProperties

---------------------------------------------------------------------------
(* Properties of the item sequence after a layout pass that followed a     *)
(* cursor movement, a click or a change of width, checked under SpecClick  *)

\* C32: after every normalize and layout pass no TextLink of the item sequence
\* has empty text, the runs left by a cursor split (arrows, clicks) and by the
\* splitting of a run over wrapped lines included.
NoEmptyTextLink ==
    ~chain.hung =>
        \A i \in 1..Len(chain.items) :
            IsText(chain.items[i]) => Len(chain.items[i].text) > 0

\* a click has put the cursor between two runs of one wrapped word
ClickSplitWrappedRun ==
    /\ last.op = "clicked"
    /\ ~chain.hung
    /\ HasVirtualNewline(chain.items)
    /\ \E i \in 2..(Len(chain.items) - 1) :
          IsCursor(chain.items[i]) /\ IsText(chain.items[i - 1]) /\ IsText(chain.items[i + 1])

---------------------------------------------------------------------------
(* One key given to handleKeyDown, undone at once and redone                *)

\* the session of a key followed: the chain the key found, the chain it left
\* and how far the undo and the redo behind it have come
Followed(phase, found, left) == [phase |-> phase, found |-> found, left |-> left]

KeyEdited(keys) ==
    \E key \in EditKeys(keys) :
        /\ MayPress(key)
        /\ KeyCall(handleKeyDown(Editor, key))
        /\ Forget
        /\ session' = Followed("edited", chain, chain')

\* undo() as the first call behind a key
UndoAfterKey ==
    /\ session.phase = "edited"
    /\ EditorCall(undo(Editor))
    /\ Forget
    /\ session' = [session EXCEPT !.phase = "undone"]

\* redo() as the first call behind that undo()
RedoAfterUndo ==
    /\ session.phase = "undone"
    /\ EditorCall(redo(Editor))
    /\ Forget
    /\ session' = [session EXCEPT !.phase = "redone"]

\* a new current font size between two rounds
SetFontSizeBetween == session.phase \in {"none", "redone"} /\ SetFontSize

InitKeyUndo ==
    /\ maxHistorySize = defaultMaxHistorySize
    /\ chain = takeSnapshot(EditorOf(NewChain(780, defaultFontProperties), <<>>, -1)).chain
    /\ history = takeSnapshot(EditorOf(NewChain(780, defaultFontProperties), <<>>, -1)).history
    /\ historyIndex = 0
    /\ run = NoRun
    /\ last = NoLast
    /\ session = Followed("none", chain, chain)
    /\ paragraphAlignments = {}
    /\ cursorVisible = TRUE
    /\ now = 0
    /\ lastBlinkTime = now
    /\ blinkCycleStartTime = now
    /\ clipboard = EmptyClipboard
    /\ scope = Scope(MaxLenKeys, MaxEdits, FALSE)

NextKeyUndo ==
    \/ KeyEdited({"a", "b"})
    \/ UndoAfterKey
    \/ RedoAfterUndo
    \/ SetFontSizeBetween

SpecKeyUndo == InitKeyUndo /\ [][NextKeyUndo]_vars

\* the characters and their fonts are the same in the chains a and b
SameDocument(a, b) ==
    /\ getText(a) = getText(b)
    /\ CharFonts(a.items) = CharFonts(b.items)

\* C33: one undo() directly behind a key handled by handleKeyDown restores the
\* text and the fonts the key found, and a redo() behind it restores the text
\* and the fonts the key left.
UndoThenRedoOfOneKey ==
    /\ session.phase = "undone" => SameDocument(chain, session.found)
    /\ session.phase = "redone" => SameDocument(chain, session.left)

\* the undo() half alone
UndoRestoresWhatKeyFound ==
    session.phase = "undone" => SameDocument(chain, session.found)

\* the redo() half alone
RedoRestoresWhatKeyLeft ==
    session.phase = "redone" => SameDocument(chain, session.left)

\* what the redo() restores: the document the key found, the newest snapshot
RedoRestoresWhatKeyFound ==
    session.phase = "redone" => SameDocument(chain, session.found)

---------------------------------------------------------------------------
(* The font commands applied to a selection that covers part of a run       *)

ClearFormattingCall == ~chain.hung /\ FontCall("clearFormatting", clearFormatting(Editor), hasSelection(chain))

NextPartial ==
    \/ PrintableKey({"a"})
    \/ SetSelection
    \/ SetFontSizeCall
    \/ SetFontFamilyCall
    \/ ToggleBoldCall
    \/ ToggleItalicCall
    \/ ToggleUnderlineCall
    \/ ToggleStrikethroughCall
    \/ ToggleSuperscriptCall
    \/ ToggleSubscriptCall
    \/ SetTextColorCall
    \/ ClearFormattingCall

SpecPartial == InitFont /\ [][NextPartial]_vars

FormattingCommands == FontCommands \cup {"clearFormatting"}

\* a formatting command has been applied to the selection it found
FormattedSelection ==
    /\ last.op \in FormattingCommands
    /\ hasSelection(last.before.chain)
    /\ ~chain.hung

\* the flattened position p lies in the selection of the chain ch
Selected(ch, p) == ch.selectionStart <= p /\ p < ch.selectionEnd

\* the flattened position p lies in a run of ch that overlaps its selection
InOverlappingRun(ch, p) ==
    \E i \in 1..Len(ch.items) :
        /\ overlapsSelection(ch, i)
        /\ offsetOf(ch.items, i) <= p
        /\ p < offsetOf(ch.items, i) + Len(ch.items[i].text)

\* C34: a formatting command applied to the selection [s, e) leaves getText()
\* as it was and leaves every character outside [s, e) with the font it had,
\* the characters of a run that the selection covers in part included.
OnlySelectedCharactersFormatted ==
    FormattedSelection =>
        /\ getText(chain) = getText(last.before.chain)
        /\ \A p \in 0..(Len(getText(chain)) - 1) :
              ~Selected(last.before.chain, p) =>
                  CharFonts(chain.items)[p + 1] = CharFonts(last.before.chain.items)[p + 1]

\* the commands that make one pass over the runs; toggleSuperscript and
\* toggleSubscript make two, with a layout between them
OnePass == FormattingCommands \ {"toggleSuperscript", "toggleSubscript"}

\* what the commands of one pass keep: the text, and the font of every
\* character outside the runs that overlap the selection
OnlyOverlappingRunsFormatted ==
    (FormattedSelection /\ last.op \in OnePass) =>
        /\ getText(chain) = getText(last.before.chain)
        /\ \A p \in 0..(Len(getText(chain)) - 1) :
              ~InOverlappingRun(last.before.chain, p) =>
                  CharFonts(chain.items)[p + 1] = CharFonts(last.before.chain.items)[p + 1]

\* a formatting command has been applied with a run outside the selection
FormattedBesideOtherRun ==
    /\ FormattedSelection
    /\ \E p \in 0..(Len(getText(chain)) - 1) : ~InOverlappingRun(last.before.chain, p)
    /\ CharFonts(chain.items) # CharFonts(last.before.chain.items)

---------------------------------------------------------------------------
(* A selection replaced by a typed character or by a pasted text           *)

\* a printable key given to handleKeyDown while a selection is active
TypedOverSelection(keys) ==
    \E c \in keys :
        /\ hasSelection(chain)
        /\ Len(history) <= scope.maxEdits
        /\ KeyCall(handleKeyDown(Editor, c))
        /\ last' = [op |-> "handleKeyDown", before |-> Editor, text |-> <<c>>]
        /\ run' = NoRun
        /\ UNCHANGED session

NextReplace ==
    \/ PrintableKey({"b", "c"})
    \/ SetSelection
    \/ TypedOverSelection({"b", "c"})
    \/ Paste
    \/ ReadResolves

\* a new editor, with the text 'a' on the clipboard
InitReplace ==
    /\ maxHistorySize = defaultMaxHistorySize
    /\ chain = takeSnapshot(EditorOf(NewChain(780, defaultFontProperties), <<>>, -1)).chain
    /\ history = takeSnapshot(EditorOf(NewChain(780, defaultFontProperties), <<>>, -1)).history
    /\ historyIndex = 0
    /\ run = NoRun
    /\ last = NoLast
    /\ session = NoSession
    /\ paragraphAlignments = {}
    /\ cursorVisible = TRUE
    /\ now = 0
    /\ lastBlinkTime = now
    /\ blinkCycleStartTime = now
    /\ clipboard = [EmptyClipboard EXCEPT !.text = <<"a">>]
    /\ scope = Scope(MaxLen, MaxEditsFormat, TRUE)

SpecReplace == InitReplace /\ [][NextReplace]_vars

\* the command called last has put last.text in with a selection active
ReplacedSelection ==
    /\ last.op \in {"handleKeyDown", "readResolved"}
    /\ hasSelection(last.before.chain)
    /\ ~chain.hung

\* old with its characters s .. e - 1 replaced by ins
Replaced(old, s, e, ins) == substring(old, 0, s) \o ins \o substring(old, e, Len(old))

\* C35: a printable character typed, or a text pasted, while the selection
\* [s, e) is active leaves old.substring(0, s) + T + old.substring(e),
\* wherever the cursor stood.
SelectionReplacedInPlace ==
    ReplacedSelection =>
        getText(chain) = Replaced(getText(last.before.chain), last.before.chain.selectionStart, last.before.chain.selectionEnd, last.text)

\* the same with the cursor at the start of what is left of the selection's
\* run once the selection is deleted
SelectionReplacedAtCursor ==
    (ReplacedSelection /\ cursorPos(deleteSelection(last.before.chain)) = last.before.chain.selectionStart /\ getText(deleteSelection(last.before.chain)) = Replaced(getText(last.before.chain), last.before.chain.selectionStart, last.before.chain.selectionEnd, <<>>)) =>
        getText(chain) = Replaced(getText(last.before.chain), last.before.chain.selectionStart, last.before.chain.selectionEnd, last.text)

\* the typed half and the pasted half alone
TypedReplacesInPlace == last.op = "handleKeyDown" => SelectionReplacedInPlace

PastedReplacesInPlace == last.op = "readResolved" => SelectionReplacedInPlace

---------------------------------------------------------------------------
(* The X positions over the renders that follow one layout pass, checked   *)
(* under SpecBlink                                                          *)

PosXs(items) == [i \in 1..Len(items) |-> items[i].computed.posX]

\* the X positions as the layout pass leaves them, and as one render() behind
\* it leaves them
LayoutPosXs == PosXs(recalc(chain).items)
CentredOncePosXs == PosXs(render(recalc(chain), paragraphAlignments).items)

\* a layout pass has given the items their positions (a new chain has none)
Positioned == \A i \in 1..Len(chain.items) : chain.items[i].computed.posX # undefined

\* C36: however many times render() has run since the last layout pass, every
\* item's posX is the one the first render left: its layout posX, plus the
\* centring offset (once) when its paragraph is centred.
RenderDoesNotAccumulate ==
    (~chain.hung /\ Positioned) => PosXs(chain.items) \in {LayoutPosXs, CentredOncePosXs}

\* the same while no paragraph is centred
RenderKeepsLeftAligned ==
    (~chain.hung /\ Positioned /\ paragraphAlignments = {}) => PosXs(chain.items) = LayoutPosXs

\* the frames of the animation loop have rendered a centred text
FramesRenderedCentred ==
    /\ last.op = "tick"
    /\ ~chain.hung
    /\ paragraphAlignments # {}
    /\ Len(getText(chain)) > 0
    /\ chain # last.before.chain

---------------------------------------------------------------------------
(* The selection bounds over the editor's commands                         *)

NextBounds ==
    \/ KeyDown({"a"})
    \/ SetSelection
    \/ SelectAll
    \/ DeleteSelection
    \/ Cut
    \/ WriteResolves
    \/ Paste
    \/ ReadResolves
    \/ SetText({<<"a", "\n">>})
    \/ Clear
    \/ Undo
    \/ Redo

SpecBounds == InitAll /\ [][NextBounds]_vars

Bounded(ch) == ch.selectionStart # null /\ ch.selectionEnd # null

\* C37: selection bounds that are not null satisfy
\* 0 <= selectionStart <= selectionEnd <= getText().length after any sequence
\* of setSelection, selectAll, typing, Backspace, deleteSelection, cut, paste,
\* setText, clear, undo and redo.
SelectionWithinText ==
    (~chain.hung /\ Bounded(chain)) =>
        /\ 0 <= chain.selectionStart
        /\ chain.selectionStart <= chain.selectionEnd
        /\ chain.selectionEnd <= Len(getText(chain))

\* the part that holds: the bounds are ordered and not negative
SelectionOrdered ==
    (~chain.hung /\ Bounded(chain)) =>
        /\ 0 <= chain.selectionStart
        /\ chain.selectionStart <= chain.selectionEnd

---------------------------------------------------------------------------
(* Navigation: the arrows, moveCursorToCharPosition and clicks             *)

ClickedAt(xs, ys) ==
    \E x \in xs, y \in ys :
        /\ ChainCall(clicked(chain, x, y))
        /\ Keyed("clicked", "")

MovedTo ==
    \E p \in 0..Len(getText(chain)) :
        /\ ChainCall(moveCursorToCharPosition(chain, p))
        /\ Keyed("moveCursorToCharPosition", "")

InitMoves == (\E w \in {20, 780} : Fresh(w)) /\ scope = Scope(MaxLenFormat, MaxEdits, TRUE)

NextMoves ==
    \/ PrintableKeyPressed({"a"})
    \/ EnterPressed
    \/ SetFontSize
    \/ SelectAll
    \/ LeftArrowPressed
    \/ RightArrowPressed
    \/ UpArrowPressed
    \/ DownArrowPressed
    \/ ClickedAt(ClickXs, ClickYs)
    \/ MovedTo

SpecMoves == InitMoves /\ [][NextMoves]_vars

Navigation == {"leftArrowPressed", "rightArrowPressed", "upArrowPressed", "downArrowPressed", "moveCursorToCharPosition", "clicked"}

---------------------------------------------------------------------------
(* The layout pipeline and the formatting of the characters, in the editor *)
(* built from src/ (FontProperties without the color) and in the one of    *)
(* docs/                                                                    *)

\* setWidth(w): the width is set and recalc() runs, nothing else
SetWidthNoted(widths) ==
    \E w \in widths :
        /\ ChainCall(setWidth(chain, w))
        /\ Keyed("setWidth", "")

\* a new editor of the build the scope names
InitLayout(as) ==
    /\ maxHistorySize = defaultMaxHistorySize
    /\ chain = takeSnapshot(EditorOf(NewChain(780, defaultFontProperties), <<>>, -1)).chain
    /\ history = takeSnapshot(EditorOf(NewChain(780, defaultFontProperties), <<>>, -1)).history
    /\ historyIndex = 0
    /\ run = NoRun
    /\ last = NoLast
    /\ session = Counted(0)
    /\ paragraphAlignments = {}
    /\ cursorVisible = TRUE
    /\ now = 0
    /\ lastBlinkTime = now
    /\ blinkCycleStartTime = now
    /\ clipboard = EmptyClipboard
    /\ scope = as

InitSource == InitLayout(SourceScope(MaxLen, MaxEditsFormat))

InitDocs == InitLayout(Scope(MaxLen, MaxEditsFormat, TRUE))

NextLayout ==
    \/ PrintableKey(Chars)
    \/ SetSelection
    \/ SetTextColorCall
    \/ SetWidthNoted({20, 780})

SpecSource == InitSource /\ [][NextLayout]_vars

SpecDocs == InitDocs /\ [][NextLayout]_vars

\* C39: the normalize and layout pipeline leaves every character with the font
\* descriptor it had, the nine fields all the same after recalc() as before:
\* checked on setWidth, which sets the width and runs the pipeline.
LayoutKeepsFormatting ==
    (last.op = "setWidth" /\ ~chain.hung) =>
        CharFonts(chain.items) = CharFonts(last.before.items)

\* the eight fields FontProperties of src/ knows
WithoutColor(f) == [f EXCEPT !.color = "#000000"]

Uncoloured(fonts) == [k \in 1..Len(fonts) |-> WithoutColor(fonts[k])]

\* what holds in the editor built from src/: every field but the color
LayoutKeepsEightFields ==
    (last.op = "setWidth" /\ ~chain.hung) =>
        Uncoloured(CharFonts(chain.items)) = Uncoloured(CharFonts(last.before.items))

\* the pipeline has run over a text with a coloured run, split over two lines
\* or joined from them
LaidOutColoured ==
    /\ last.op = "setWidth"
    /\ ~chain.hung
    /\ HasVirtualNewline(chain.items) # HasVirtualNewline(last.before.items)
    /\ \E k \in 1..Len(CharFonts(last.before.items)) : CharFonts(last.before.items)[k].color # "#000000"

---------------------------------------------------------------------------
(* The runs after chunkTextLinks, checked under Spec                       *)

\* C40: after every layout pass the text of every TextLink is purely
\* whitespace or purely non-whitespace, whatever whitespace the text has at
\* its start, at its end or in a row.
RunsArePure ==
    ~chain.hung =>
        \A i \in 1..Len(chain.items) :
            IsText(chain.items[i]) =>
                PureWhitespace(chain.items[i].text) \/ PureNonWhitespace(chain.items[i].text)

\* a word stands between a blank before it and a blank behind it, or behind
\* two blanks in a row, and the layout pass has run over it
WordAmongBlanks ==
    /\ ~chain.hung
    /\ getText(chain) \in {<<" ", "a", " ">>, <<" ", " ", "a">>}
    /\ \A i \in 1..Len(chain.items) : chain.items[i].computed.posX # undefined

=============================================================================
